---- MODULE Spec2Model ----
(***************************************************************************)
(* Swiss CV Enhancer (app_gemini.py / app_gemini_2languages.py).           *)
(*                                                                         *)
(* A text is a sequence of one-character strings (Python str).  A few long *)
(* literals of the program are kept as a single unit of a text: the        *)
(* document separator and the words of an uploaded document.               *)
(***************************************************************************)
EXTENDS Integers, Sequences, FiniteSets, TLC

VARIABLES
    raw_text_from_ai,   \* decoder run: the argument of robust_json_parser
    dec_src,            \* decoder run: how the argument was put together
    dec_out,            \* decoder run: what robust_json_parser returned and showed
    uploaded_file,      \* extractor run: the argument of extract_text_from_file
    ext_out,            \* extractor run: what extract_text_from_file returned and showed
    cv_data,            \* st.session_state.cv_data
    pc,                 \* position of the script run inside run_the_app
    uploaded_files,     \* widget: st.file_uploader (list, in upload order)
    free_text_input,    \* widget: st.text_area
    file_idx,           \* loop index of "for file in uploaded_files"
    all_texts,          \* local of the Analyse handler
    consolidated_text,  \* local of the Analyse handler
    extracted_data,     \* local of the Analyse handler
    rewritten_data,     \* local of the Analyse handler
    response,           \* what the last model.generate_content call gave
    ui,                 \* what the current script run has shown (st.error, st.warning, ...)
    events,             \* calls made by the current script run, in order
    cv_at_click,        \* cv_data when the current action began
    n_actions,          \* number of Analyse clicks so far in the session
    norm_out,           \* form run: the final context made of the form as first shown
    norm_again,         \* form run: the same, made of norm_out taken as the record
    variant,            \* the program run: app_gemini.py or app_gemini_2languages.py
    form,               \* st.session_state: the values of the widgets of the editor form
    language_selection, \* widget: st.selectbox of the output language
    uploaded_pic,       \* widget: the profile picture uploader (app_gemini.py)
    final_context,      \* local of the submit handler
    rendered,           \* what doc.render was given by the current script run
    download,           \* the st.download_button shown by the current script run
    disk,               \* the files the program has written that are on disk
    n_renders,          \* number of doc.render calls on the record now stored
    n_generates,        \* number of Generate clicks so far in the session
    secrets,            \* st.secrets: the configuration of the deployment
    password_correct,   \* st.session_state.password_correct
    gate                \* the script runs of the session seen from check_password

vars == <<raw_text_from_ai, dec_src, dec_out, uploaded_file, ext_out, cv_data, pc,
          uploaded_files, free_text_input, file_idx, all_texts, consolidated_text,
          extracted_data, rewritten_data, response, ui, events, cv_at_click,
          n_actions, norm_out, norm_again, variant, form, language_selection,
          uploaded_pic, final_context, rendered, download, disk, n_renders,
          n_generates, secrets, password_correct, gate>>

decVars == <<raw_text_from_ai, dec_src, dec_out>>
extVars == <<uploaded_file, ext_out>>
appVars == <<cv_data, pc, uploaded_files, free_text_input, file_idx, all_texts,
             consolidated_text, extracted_data, rewritten_data, response, ui,
             events, cv_at_click, n_actions>>
normVars == <<norm_out, norm_again>>
gateVars == <<secrets, password_correct, gate>>
docVars == <<variant, form, language_selection, uploaded_pic, final_context, rendered,
             download, disk, n_renders, n_generates>>

-----------------------------------------------------------------------------
(* Bounds of the model.                                                    *)

MaxJunkLen == 4     \* longest arbitrary response text handed to the decoder
MaxItems == 2       \* most entries of a generated JSON array
MaxFiles == 3       \* most files uploaded in one Analyse action
MaxActions == 2     \* most Analyse clicks in one session

-----------------------------------------------------------------------------
(* Python str primitives.                                                  *)

Whitespace == {" ", "\n"}

Max2(a, b) == IF a >= b THEN a ELSE b

StartsWith(s, p) == Len(s) >= Len(p) /\ SubSeq(s, 1, Len(p)) = p

\* the first index >= i of s that is not in the set ws (Len(s)+1 when none)
SkipOver(s, i, ws) ==
    LET stops == {j \in i..Len(s) : s[j] \notin ws}
    IN  IF stops = {} THEN Max2(i, Len(s) + 1)
        ELSE CHOOSE j \in stops : \A k \in stops : j <= k

\* str.strip()
strip(s) ==
    LET keep == {j \in 1..Len(s) : s[j] \notin Whitespace}
    IN  IF keep = {} THEN << >>
        ELSE SubSeq(s, CHOOSE j \in keep : \A k \in keep : j <= k,
                       CHOOSE j \in keep : \A k \in keep : j >= k)

\* str.find(c): 0-based index of the first c, -1 when absent
find(s, c) ==
    LET hits == {j \in 1..Len(s) : s[j] = c}
    IN  IF hits = {} THEN -1
        ELSE (CHOOSE j \in hits : \A k \in hits : j <= k) - 1

\* str.rfind(c): 0-based index of the last c, -1 when absent
rfind(s, c) ==
    LET hits == {j \in 1..Len(s) : s[j] = c}
    IN  IF hits = {} THEN -1
        ELSE (CHOOSE j \in hits : \A k \in hits : j >= k) - 1

RECURSIVE Join(_, _)
\* sep.join(parts)
Join(sep, parts) ==
    IF parts = << >> THEN << >>
    ELSE IF Len(parts) = 1 THEN parts[1]
    ELSE parts[1] \o sep \o Join(sep, Tail(parts))

-----------------------------------------------------------------------------
(* json.loads on the characters of the model: objects, arrays, strings     *)
(* without escapes, and integers written with the digit 1.  A decoded      *)
(* value is [k |-> kind, v |-> payload]; a dict is a function from keys.   *)

None == [k |-> "none", v |-> << >>]

JsonWs == {" ", "\n"}

Digits == {"1"}

Fail == [ok |-> FALSE, val |-> None, end |-> 0]

Ok(val, end) == [ok |-> TRUE, val |-> val, end |-> end]

EmptyDict == [x \in {} |-> None]

\* py_scanstring, strict: s[i] is the character after the opening quote
scanstring(s, i) ==
    LET quotes == {j \in i..Len(s) : s[j] = "\""}
    IN  IF quotes = {} THEN Fail
        ELSE LET j == CHOOSE q \in quotes : \A k \in quotes : q <= k
             IN  IF \E m \in i..(j - 1) : s[m] = "\n" THEN Fail
                 ELSE Ok([k |-> "str", v |-> SubSeq(s, i, j - 1)], j + 1)

RECURSIVE DecimalValue(_)
DecimalValue(ds) ==
    IF ds = << >> THEN 0
    ELSE 10 * DecimalValue(SubSeq(ds, 1, Len(ds) - 1)) + 1

\* NUMBER_RE.match at s[i], a digit
scannumber(s, i) ==
    LET j == SkipOver(s, i, Digits)
    IN  Ok([k |-> "num", v |-> DecimalValue(SubSeq(s, i, j - 1))], j)

RECURSIVE scan_once(_, _), JSONObjectLoop(_, _, _), JSONArrayLoop(_, _, _)

\* JSONObject after a key's opening quote at s[i - 1]; pairs holds the earlier keys
JSONObjectLoop(s, i, pairs) ==
    LET key == scanstring(s, i)
    IN  IF ~key.ok THEN Fail
        ELSE LET c == SkipOver(s, key.end, JsonWs)
             IN  IF c > Len(s) \/ s[c] # ":" THEN Fail
                 ELSE LET value == scan_once(s, SkipOver(s, c + 1, JsonWs))
                      IN  IF ~value.ok THEN Fail
                          ELSE LET d == SkipOver(s, value.end, JsonWs)
                                   now == (key.val.v :> value.val) @@ pairs
                               IN  IF d > Len(s) THEN Fail
                                   ELSE IF s[d] = "}" THEN Ok([k |-> "obj", v |-> now], d + 1)
                                   ELSE IF s[d] # "," THEN Fail
                                   ELSE LET q == SkipOver(s, d + 1, JsonWs)
                                        IN  IF q > Len(s) \/ s[q] # "\"" THEN Fail
                                            ELSE JSONObjectLoop(s, q + 1, now)

\* JSONArray at the first value s[i]; values holds the earlier entries
JSONArrayLoop(s, i, values) ==
    LET value == scan_once(s, i)
    IN  IF ~value.ok THEN Fail
        ELSE LET d == SkipOver(s, value.end, JsonWs)
                 now == Append(values, value.val)
             IN  IF d > Len(s) THEN Fail
                 ELSE IF s[d] = "]" THEN Ok([k |-> "list", v |-> now], d + 1)
                 ELSE IF s[d] # "," THEN Fail
                 ELSE JSONArrayLoop(s, SkipOver(s, d + 1, JsonWs), now)

\* scanner.py_make_scanner._scan_once
scan_once(s, i) ==
    IF i > Len(s) THEN Fail
    ELSE IF s[i] = "\"" THEN scanstring(s, i + 1)
    ELSE IF s[i] = "{" THEN
        LET j == SkipOver(s, i + 1, JsonWs)
        IN  IF j > Len(s) THEN Fail
            ELSE IF s[j] = "}" THEN Ok([k |-> "obj", v |-> EmptyDict], j + 1)
            ELSE IF s[j] # "\"" THEN Fail
            ELSE JSONObjectLoop(s, j + 1, EmptyDict)
    ELSE IF s[i] = "[" THEN
        LET j == SkipOver(s, i + 1, JsonWs)
        IN  IF j > Len(s) THEN Fail
            ELSE IF s[j] = "]" THEN Ok([k |-> "list", v |-> << >>], j + 1)
            ELSE JSONArrayLoop(s, j, << >>)
    ELSE IF s[i] \in Digits THEN scannumber(s, i)
    ELSE Fail

\* json.loads: the value, or a failure for JSONDecodeError (ok = FALSE)
json_loads(s) ==
    LET r == scan_once(s, SkipOver(s, 1, JsonWs))
    IN  IF ~r.ok THEN Fail
        ELSE IF SkipOver(s, r.end, JsonWs) # Len(s) + 1 THEN Fail
        ELSE r

-----------------------------------------------------------------------------
(* robust_json_parser (app_gemini.py 195-208, app_gemini_2languages.py     *)
(* 231-244).                                                               *)

\* the backquote character (the lexer of this language has no string for it)
Backquote == "BACKQUOTE"

Fence == <<Backquote, Backquote, Backquote>>

JsonTag == <<"j", "s", "o", "n">>

\* re.sub(r'^FENCEjson\s*|FENCE\s*$', '', s), FENCE being three backquotes
StripFences(s) ==
    LET a == IF StartsWith(s, Fence \o JsonTag)
             THEN SubSeq(s, SkipOver(s, Len(Fence) + Len(JsonTag) + 1, Whitespace), Len(s))
             ELSE s
        tails == {p \in 1..(Len(a) - 2) :
                    /\ SubSeq(a, p, p + 2) = Fence
                    /\ \A q \in (p + 3)..Len(a) : a[q] \in Whitespace}
    IN  IF tails = {} THEN a
        ELSE SubSeq(a, 1, (CHOOSE p \in tails : \A q \in tails : p <= q) - 1)

Closers == {"}", "]"}

RECURSIVE RepairFrom(_, _)
\* the matches of r',\s*([}\]])' from s[i] on, left to right, each replaced by its group 1
RepairFrom(s, i) ==
    IF i > Len(s) THEN << >>
    ELSE IF s[i] = ","
         THEN LET j == SkipOver(s, i + 1, Whitespace)
              IN  IF j <= Len(s) /\ s[j] \in Closers
                  THEN <<s[j]>> \o RepairFrom(s, j + 1)
                  ELSE <<s[i]>> \o RepairFrom(s, i + 1)
         ELSE <<s[i]>> \o RepairFrom(s, i + 1)

RECURSIVE RepairAdjacentFrom(_, _)
\* as RepairFrom, for the pattern r',([}\]])' that allows no whitespace after the comma
RepairAdjacentFrom(s, i) ==
    IF i > Len(s) THEN << >>
    ELSE IF s[i] = "," /\ i + 1 <= Len(s) /\ s[i + 1] \in Closers
         THEN <<s[i + 1]>> \o RepairAdjacentFrom(s, i + 2)
         ELSE <<s[i]>> \o RepairAdjacentFrom(s, i + 1)

RepairCommas_adjacent_only(s) == RepairAdjacentFrom(s, 1)

\* re.sub(r',\s*([}\]])', r'\1', s)
RepairCommas(s) == RepairFrom(s, 1)

\* what the try block does: exc is the exception it raises, "" when it returns val
Returned(val) == [exc |-> "", detail |-> "", val |-> val]

Raised(exc, detail) == [exc |-> exc, detail |-> detail, val |-> None]

\* the end of the isolated span: rfind('}') + 1
SpanEnd(clean_text) == rfind(clean_text, "}") + 1

\* as parser_try, without the isolation of the span between the braces
parser_try_no_isolation(raw) ==
    LET r == json_loads(RepairCommas(StripFences(strip(raw))))
    IN  IF r.ok THEN Returned(r.val) ELSE Raised("JSONDecodeError", "json.loads")

\* lines 198-204
parser_try(raw) ==
    LET clean_text == StripFences(strip(raw))
        start == find(clean_text, "{")
        end == SpanEnd(clean_text)
    IN  IF start = -1 \/ end = 0 THEN Raised("ValueError", "JSON object not found.")
        ELSE LET clean_json_text == RepairCommas(SubSeq(clean_text, start + 1, end))
                 r == json_loads(clean_json_text)
             IN  IF r.ok THEN Returned(r.val)
                 ELSE Raised("JSONDecodeError", "json.loads")

\* as ParserCaught, for "except json.JSONDecodeError" alone
ParserCaught_decode_error_only == {"JSONDecodeError"}

\* except (ValueError, json.JSONDecodeError)
ParserCaught == {"ValueError", "JSONDecodeError"}

Shown(kind, text, arg) == [kind |-> kind, text |-> text, arg |-> arg]

\* lines 195-208: ret is the value returned, shown what st.error / st.text_area
\* displayed, escaped whether an exception left the function
robust_json_parser(raw) ==
    LET b == parser_try(raw)
    IN  IF b.exc = "" THEN [ret |-> b.val, shown |-> << >>, escaped |-> FALSE]
        ELSE IF b.exc \in ParserCaught
             THEN [ret |-> None,
                   shown |-> <<Shown("error", b.detail, << >>),
                               Shown("text_area", "Raw AI output:", raw)>>,
                   escaped |-> FALSE]
             ELSE [ret |-> None, shown |-> << >>, escaped |-> TRUE]

-----------------------------------------------------------------------------
(* Response texts handed to the decoder: JSON object texts, decorated with *)
(* code fences and with one trailing comma, and arbitrary short texts.     *)

Quote == "\""

StrTexts == {<<Quote, "a", Quote>>, <<Quote, ",", "}", Quote>>, <<Quote, Quote>>}

LeafTexts == StrTexts \cup {<<"1">>, <<"{", "}">>}

ItemSeps == {<<",">>, <<",", " ">>}

ArrayTexts ==
    {<<"[">> \o Join(sep, items) \o <<"]">> :
        sep \in ItemSeps, items \in UNION {[1..n -> LeafTexts] : n \in 0..MaxItems}}

ValueTexts == LeafTexts \cup ArrayTexts

Key(c) == <<Quote, c, Quote, ":">>

\* "compact" is the text on one line, "pretty" has a newline inside the braces
ObjectStyles == {"compact", "pretty"}

Braced(style, inner) ==
    IF style = "compact" THEN <<"{">> \o inner \o <<"}">>
    ELSE <<"{", "\n">> \o inner \o <<"\n", "}">>

ObjectTexts ==
    {Braced(st, Key("a") \o v) : st \in ObjectStyles, v \in ValueTexts}
    \cup {Braced(st, Key("a") \o v \o <<",", " ">> \o Key(c) \o w) :
            st \in ObjectStyles, v \in LeafTexts, c \in {"a", "n"}, w \in LeafTexts}

FenceKinds == {"none", "plain", "json", "json_padded"}

Wrap(fence, t) ==
    CASE fence = "none" -> t
      [] fence = "plain" -> Fence \o <<"\n">> \o t \o <<"\n">> \o Fence
      [] fence = "json" -> Fence \o JsonTag \o <<"\n">> \o t \o <<"\n">> \o Fence
      [] fence = "json_padded" ->
            <<" ">> \o Fence \o JsonTag \o <<" ", "\n">> \o t \o <<"\n">> \o Fence \o <<"\n">>

\* whether s[p] lies inside a string literal of the JSON text s
InString(s, p) == Cardinality({q \in 1..(p - 1) : s[q] = Quote}) % 2 = 1

\* the closing braces and brackets of the JSON text s
StructuralClosers(s) == {p \in 1..Len(s) : s[p] \in Closers /\ ~InString(s, p)}

CommaGaps == {<< >>, <<" ">>, <<"\n", " ">>}

\* t with extra written right before position at (at = 0: t itself)
InsertBefore(t, at, extra) ==
    IF at = 0 THEN t ELSE SubSeq(t, 1, at - 1) \o extra \o SubSeq(t, at, Len(t))

\* the response text a source describes
TextOf(src) ==
    IF src.kind = "junk" THEN src.body
    ELSE Wrap(src.fence, InsertBefore(src.body, src.comma_at, <<",">> \o src.gap))

\* the same text without the trailing comma
CommaFree(src) == Wrap(src.fence, InsertBefore(src.body, src.comma_at, src.gap))

JunkChars == {"{", "}", ",", "a", Backquote}

JunkTexts == UNION {[1..n -> JunkChars] : n \in 0..MaxJunkLen}

DecoderSources ==
    {[kind |-> "json", body |-> t, fence |-> f, comma_at |-> 0, gap |-> << >>] :
        t \in ObjectTexts, f \in FenceKinds}
    \cup UNION {{[kind |-> "json", body |-> t, fence |-> f, comma_at |-> p, gap |-> g] :
                    f \in FenceKinds, p \in StructuralClosers(t), g \in CommaGaps} :
                t \in ObjectTexts}
    \cup {[kind |-> "junk", body |-> t, fence |-> "none", comma_at |-> 0, gap |-> << >>] :
            t \in JunkTexts}

Pending == [ret |-> None, shown |-> << >>, escaped |-> FALSE, done |-> FALSE]

NoSource == [kind |-> "junk", body |-> << >>, fence |-> "none", comma_at |-> 0, gap |-> << >>]

NoResponse == [kind |-> "none", text |-> << >>]

NoFile == [name |-> "", type |-> "", readable |-> TRUE, parts |-> << >>]

ExtPending == [ret |-> << >>, shown |-> << >>, escaped |-> FALSE, done |-> FALSE]

NormPending == [exc |-> "", detail |-> "", val |-> None, done |-> FALSE]

NoForm == [shown |-> FALSE, w |-> << >>]

NoRender == [done |-> FALSE, context |-> None, autoescape |-> FALSE]

NoDownload == [shown |-> FALSE, file_name |-> << >>]

NoPicture == ""

\* the secret of the deployments of the model
Secret == <<"s3cret">>

\* no run of the password check under way; input is the text of the password
\* box, run the number of script runs so far, granted_run the run that set the
\* flag (0: none) and granted_with the text it was set for, app_runs the number
\* of runs that reached run_the_app, shown what check_password has shown
GateIdle ==
    [pc |-> "idle", input |-> << >>, run |-> 0, granted_run |-> 0,
     granted_with |-> << >>, app_runs |-> 0, shown |-> << >>]

\* the session has passed the password check: run_the_app runs
AccessGranted ==
    /\ secrets = [k |-> "obj", v |-> (<<"APP_PASSWORD">> :> [k |-> "str", v |-> Secret])]
    /\ password_correct = TRUE
    /\ gate = [GateIdle EXCEPT !.run = 2, !.granted_run = 1, !.granted_with = Secret,
                               !.input = Secret]

\* no script run under way, nothing generated yet
RunIdle ==
    /\ AccessGranted
    /\ norm_out = NormPending
    /\ norm_again = NormPending
    /\ form = NoForm
    /\ language_selection = "English"
    /\ uploaded_pic = NoPicture
    /\ final_context = None
    /\ rendered = NoRender
    /\ download = NoDownload
    /\ disk = {}
    /\ n_renders = 0
    /\ n_generates = 0
    /\ pc = "idle"
    /\ uploaded_files = << >>
    /\ free_text_input = << >>
    /\ file_idx = 0
    /\ all_texts = << >>
    /\ consolidated_text = << >>
    /\ extracted_data = None
    /\ rewritten_data = None
    /\ response = NoResponse
    /\ ui = << >>
    /\ events = << >>
    /\ cv_at_click = None
    /\ n_actions = 0

AppIdle == RunIdle /\ cv_data = None

DecoderInit ==
    /\ dec_src \in DecoderSources
    /\ raw_text_from_ai = TextOf(dec_src)
    /\ dec_out = Pending
    /\ uploaded_file = NoFile
    /\ ext_out = ExtPending
    /\ variant = "app_gemini.py"
    /\ AppIdle

\* one call robust_json_parser(raw_text_from_ai)
Decode ==
    /\ ~dec_out.done
    /\ dec_out' = [done |-> TRUE] @@ robust_json_parser(raw_text_from_ai)
    /\ UNCHANGED <<raw_text_from_ai, dec_src, extVars, appVars, normVars, docVars,
                   gateVars>>

DecoderNext == Decode

SpecDecoder == DecoderInit /\ [][DecoderNext]_vars

-----------------------------------------------------------------------------
(* Claims about the decoder, checked under SpecDecoder.                    *)

\* C1: a valid JSON object text wrapped in a leading fence (plain or tagged json)
\* and a trailing fence decodes successfully, to the same object as the unwrapped text.
C1_FencedDecodesAsUnwrapped ==
    (dec_out.done /\ dec_src.kind = "json" /\ dec_src.comma_at = 0
        /\ dec_src.fence # "none")
    => /\ dec_out.ret.k = "obj"
       /\ ~dec_out.escaped
       /\ dec_out.shown = << >>
       /\ dec_out.ret = robust_json_parser(dec_src.body).ret

C1_Witness ==
    /\ dec_out.done
    /\ dec_src.kind = "json" /\ dec_src.comma_at = 0 /\ dec_src.fence = "plain"
    /\ dec_out.ret.k = "obj"
    /\ DOMAIN dec_out.ret.v = {<<"a">>, <<"n">>}

\* C2: a JSON object text that is valid but for one trailing comma (with optional
\* whitespace) before a closing brace or bracket decodes successfully, to the same
\* object as the text without that comma.
C2_TrailingCommaRepaired ==
    (dec_out.done /\ dec_src.kind = "json" /\ dec_src.comma_at # 0)
    => /\ dec_out.ret.k = "obj"
       /\ ~dec_out.escaped
       /\ dec_out.ret = robust_json_parser(CommaFree(dec_src)).ret

C2_Witness ==
    /\ dec_out.done
    /\ dec_src.kind = "json" /\ dec_src.comma_at # 0 /\ dec_src.gap # << >>
    /\ dec_src.body[dec_src.comma_at] = "]"
    /\ dec_out.ret.k = "obj"
    /\ dec_out.ret.v[<<"a">>].k = "list"
    /\ Len(dec_out.ret.v[<<"a">>].v) = 2

HasChar(s, c) == \E i \in 1..Len(s) : s[i] = c

\* C3: a text with no opening brace or no closing brace (the empty text included)
\* ends in the failure "JSON object not found.": None is returned, the error and
\* the raw text are shown, and no exception leaves the decoder.
C3_NoObjectFound ==
    (dec_out.done
        /\ (~HasChar(raw_text_from_ai, "{") \/ ~HasChar(raw_text_from_ai, "}")))
    => /\ dec_out.ret = None
       /\ ~dec_out.escaped
       /\ dec_out.shown = <<Shown("error", "JSON object not found.", << >>),
                            Shown("text_area", "Raw AI output:", raw_text_from_ai)>>

C3_Witness ==
    /\ dec_out.done
    /\ HasChar(raw_text_from_ai, "{") /\ ~HasChar(raw_text_from_ai, "}")
    /\ dec_out.ret = None
    /\ dec_out.shown # << >>

-----------------------------------------------------------------------------
(* extract_text_from_file (app_gemini.py 182-193, app_gemini_2languages.py *)
(* 218-229).  An uploaded file has a name, a declared media type, whether  *)
(* its bytes can be read by the library, and the values its pages          *)
(* (page.extract_text(): a str or None) or paragraphs (para.text: a str)   *)
(* give.                                                                   *)

PDF == "application/pdf"

DOCX == "application/vnd.openxmlformats-officedocument.wordprocessingml.document"

Str(t) == [k |-> "str", v |-> t]

\* as Truthy, for the test "x is not None"
Truthy_is_not_none(x) == x.k # "none"

\* bool(x) of Python
Truthy(x) ==
    CASE x.k = "none" -> FALSE
      [] x.k = "obj" -> DOMAIN x.v # {}
      [] x.k = "num" -> x.v # 0
      [] OTHER -> Len(x.v) > 0

RECURSIVE TextsWhere(_, _)
\* [p for p in parts if p] as texts, when skip_empty; [p for p in parts] otherwise
TextsWhere(parts, skip_empty) ==
    IF parts = << >> THEN << >>
    ELSE IF skip_empty /\ ~Truthy(Head(parts)) THEN TextsWhere(Tail(parts), skip_empty)
    ELSE <<Head(parts).v>> \o TextsWhere(Tail(parts), skip_empty)

Newline == <<"\n">>

\* line 187: "\n".join([page.extract_text() for page in pdf.pages if page.extract_text()])
PdfText(file) == Join(Newline, TextsWhere(file.parts, TRUE))

\* line 190: "\n".join([para.text for para in doc.paragraphs])
DocxText(file) == Join(Newline, TextsWhere(file.parts, FALSE))

\* as extractor_try, with any type that is not PDF handed to the DOCX reader
extractor_try_else_docx(file) ==
    IF ~file.readable THEN Raised("Exception", "reader")
    ELSE IF file.type = PDF THEN Returned(Str(PdfText(file)))
    ELSE Returned(Str(DocxText(file)))

\* lines 184-190: the try block; it returns val, raises exc, or falls through
\* (val = None) to line 193
extractor_try(file) ==
    IF file.type = PDF
    THEN IF file.readable THEN Returned(Str(PdfText(file)))
         ELSE Raised("Exception", "pdfplumber.open")
    ELSE IF file.type = DOCX
    THEN IF file.readable THEN Returned(Str(DocxText(file)))
         ELSE Raised("Exception", "Document")
    ELSE Returned(None)

\* as ExtractorCatches, with no handler around the readers
ExtractorCatches_nothing(exc) == FALSE

\* line 191: except Exception
ExtractorCatches(exc) == exc \in {"Exception", "ValueError", "JSONDecodeError"}

\* lines 182-193
extract_text_from_file(file) ==
    LET b == extractor_try(file)
    IN  IF b.exc = ""
        THEN [ret |-> IF b.val = None THEN << >> ELSE b.val.v,
              shown |-> << >>, escaped |-> FALSE]
        ELSE IF ExtractorCatches(b.exc)
             THEN [ret |-> << >>,
                   shown |-> <<Shown("error", "Error reading file:", <<file.name>>)>>,
                   escaped |-> FALSE]
             ELSE [ret |-> << >>, shown |-> << >>, escaped |-> TRUE]

MaxParts == 3       \* most pages or paragraphs of a file handed to the extractor

MediaTypes == {PDF, DOCX, "text/plain", "image/png"}

PageValues == {None, Str(<< >>), Str(<<"Hello">>), Str(<<"World">>)}

ParagraphValues == PageValues \ {None}

ExtractorFiles ==
    {[name |-> n, type |-> t, readable |-> r, parts |-> ps] :
        n \in {"cv.pdf"}, t \in MediaTypes \ {DOCX}, r \in BOOLEAN,
        ps \in UNION {[1..m -> PageValues] : m \in 0..MaxParts}}
    \cup {[name |-> n, type |-> DOCX, readable |-> r, parts |-> ps] :
        n \in {"cv.docx"}, r \in BOOLEAN,
        ps \in UNION {[1..m -> ParagraphValues] : m \in 0..MaxParts}}

ExtractorInit ==
    /\ uploaded_file \in ExtractorFiles
    /\ ext_out = ExtPending
    /\ dec_src = NoSource
    /\ raw_text_from_ai = << >>
    /\ dec_out = Pending
    /\ variant = "app_gemini.py"
    /\ AppIdle

\* one call extract_text_from_file(uploaded_file)
ExtractText ==
    /\ ~ext_out.done
    /\ ext_out' = [done |-> TRUE] @@ extract_text_from_file(uploaded_file)
    /\ UNCHANGED <<uploaded_file, gateVars, decVars, appVars, normVars, docVars>>

ExtractorNext == ExtractText

SpecExtractor == ExtractorInit /\ [][ExtractorNext]_vars

\* C8: for a file whose declared media type is neither PDF nor DOCX the result is
\* the empty string, nothing is reported and no exception is raised.
C8_UnsupportedTypeGivesEmpty ==
    (ext_out.done /\ uploaded_file.type \notin {PDF, DOCX})
    => /\ ext_out.ret = << >>
       /\ ~ext_out.escaped
       /\ ext_out.shown = << >>

C8_Witness ==
    /\ ext_out.done
    /\ uploaded_file.type = "image/png"
    /\ uploaded_file.readable
    /\ Len(uploaded_file.parts) = 2
    /\ uploaded_file.parts[1] = Str(<<"Hello">>)
    /\ ext_out.ret = << >>

\* the texts of the pages or paragraphs that have text
NonEmptyTexts(parts) == TextsWhere(parts, TRUE)

\* C10: for both media types the result is the newline-joined text of the pages or
\* paragraphs that have text; an empty page or paragraph adds neither text nor a newline.
C10_EmptyPartsSkipped ==
    (ext_out.done /\ uploaded_file.type \in {PDF, DOCX} /\ uploaded_file.readable)
    => ext_out.ret = Join(Newline, NonEmptyTexts(uploaded_file.parts))

-----------------------------------------------------------------------------
(* The editor form and the final context (app_gemini.py 324-423,           *)
(* app_gemini_2languages.py 360-456): Python values and the operations the *)
(* form code applies to them.  A dict key is a text of one unit, such as   *)
(* <<"skills">>.                                                           *)

Num(n) == [k |-> "num", v |-> n]

List(xs) == [k |-> "list", v |-> xs]

Obj(f) == [k |-> "obj", v |-> f]

EmptyStr == Str(<< >>)

\* lines 346 and 360: the [:10] of work_experience and education
MaxEntries == 10

\* lines 371-374: the [:6] of skills, languages and hobbies
MaxLines == 6

\* 'Present', the "to" date of the current job (lines 354 and 406)
Present == <<"Present">>

Min2(a, b) == IF a <= b THEN a ELSE b

\* d.get(key, default), d a dict
Get(d, key, default) == IF <<key>> \in DOMAIN d.v THEN d.v[<<key>>] ELSE default

RECURSIVE DecimalText(_)
\* str(n), n >= 0
DecimalText(n) ==
    IF n < 10 THEN <<<<"0", "1", "2", "3", "4", "5", "6", "7", "8", "9">>[n + 1]>>
    ELSE DecimalText(n \div 10) \o DecimalText(n % 10)

RECURSIVE SetToSeq(_)
\* the elements of a finite set, in some order
SetToSeq(S) ==
    IF S = {} THEN << >>
    ELSE LET x == CHOOSE y \in S : TRUE IN <<x>> \o SetToSeq(S \ {x})

RECURSIVE PyRepr(_), PyReprs(_)
\* repr(v); a dict of the model has at most one key where its order matters
PyRepr(v) ==
    CASE v.k = "str" -> <<"'">> \o Join(<< >>, [i \in 1..Len(v.v) |->
                                IF v.v[i] = "\n" THEN <<"\\", "n">> ELSE <<v.v[i]>>])
                               \o <<"'">>
      [] v.k = "num" -> DecimalText(v.v)
      [] v.k = "none" -> <<"None">>
      [] v.k = "list" -> <<"[">> \o Join(<<",", " ">>, PyReprs(v.v)) \o <<"]">>
      [] v.k = "obj" ->
            <<"{">> \o Join(<<",", " ">>,
                            [i \in 1..Cardinality(DOMAIN v.v) |->
                                LET key == SetToSeq(DOMAIN v.v)[i]
                                IN  PyRepr(Str(key)) \o <<":", " ">> \o PyRepr(v.v[key])])
                  \o <<"}">>

PyReprs(xs) == [i \in 1..Len(xs) |-> PyRepr(xs[i])]

\* str(v): what st.text_input / st.text_area makes of its value, and what an
\* f-string makes of a field
PyStr(v) == IF v.k = "str" THEN v.v ELSE PyRepr(v)

\* as SliceTo, the whole of x in place of x[:cap]
SliceTo_uncapped(x, cap) ==
    CASE x.k = "list" -> Returned(x.v)
      [] x.k = "str" -> Returned([i \in 1..Len(x.v) |-> Str(<<x.v[i]>>)])
      [] OTHER -> Raised("TypeError", "slice")

\* x[:cap] as the sequence of its items; only list and str can be sliced
SliceTo(x, cap) ==
    CASE x.k = "list" -> Returned(SubSeq(x.v, 1, Min2(Len(x.v), cap)))
      [] x.k = "str" -> Returned([i \in 1..Min2(Len(x.v), cap) |-> Str(<<x.v[i]>>)])
      [] OTHER -> Raised("TypeError", "slice")

\* iter(x) as the sequence of its items: a str gives its characters, a dict its keys
Iter(x) ==
    CASE x.k = "list" -> Returned(x.v)
      [] x.k = "str" -> Returned([i \in 1..Len(x.v) |-> Str(<<x.v[i]>>)])
      [] x.k = "obj" -> Returned([i \in 1..Cardinality(DOMAIN x.v) |->
                                     Str(SetToSeq(DOMAIN x.v)[i])])
      [] OTHER -> Raised("TypeError", "iter")

\* "\n".join(items): every item has to be a str
JoinLines(items) ==
    IF \A i \in 1..Len(items) : items[i].k = "str"
    THEN Returned(Join(Newline, [i \in 1..Len(items) |-> items[i].v]))
    ELSE Raised("TypeError", "join")

\* x[i] if len(x) > i else "" (lines 342-343), i counted from 0
ItemOrEmpty(x, i) ==
    CASE x.k = "list" -> Returned(IF Len(x.v) > i THEN x.v[i + 1] ELSE EmptyStr)
      [] x.k = "str" -> Returned(IF Len(x.v) > i THEN Str(<<x.v[i + 1]>>) ELSE EmptyStr)
      [] x.k = "obj" -> IF Cardinality(DOMAIN x.v) > i THEN Raised("KeyError", "item")
                        ELSE Returned(EmptyStr)
      [] OTHER -> Raised("TypeError", "len")

RECURSIVE split(_, _)
\* s.split(sep), sep one character
split(s, sep) ==
    LET i == find(s, sep)
    IN  IF i = -1 THEN <<s>>
        ELSE <<SubSeq(s, 1, i)>> \o split(SubSeq(s, i + 2, Len(s)), sep)

\* line.partition(sep): what is before the first sep, and what is after it
partition(s, sep) ==
    LET i == find(s, sep)
    IN  IF i = -1 THEN [head |-> s, tail |-> << >>]
        ELSE [head |-> SubSeq(s, 1, i), tail |-> SubSeq(s, i + 2, Len(s))]

RECURSIVE Keep(_, _)
\* the entries xs[i] with ok[i], in order
Keep(xs, ok) ==
    IF xs = << >> THEN << >>
    ELSE IF ok[1] THEN <<xs[1]>> \o Keep(Tail(xs), Tail(ok))
    ELSE Keep(Tail(xs), Tail(ok))

\* [line.strip() for line in text.split('\n') if line.strip()]
StrippedLines(text) ==
    LET lines == split(text, "\n")
        stripped == [i \in 1..Len(lines) |-> strip(lines[i])]
    IN  Keep(stripped, [i \in 1..Len(lines) |-> Len(stripped[i]) > 0])

\* s.lower() on the units of the model
lower(s) ==
    [i \in 1..Len(s) |-> IF s[i] \in {"Present", "PRESENT", "present"} THEN "present"
                         ELSE s[i]]

\* the outcome of statements run one after the other: the first exception
\* raised, or the values of all of them
InOrder(rs) ==
    LET bad == {i \in 1..Len(rs) : rs[i].exc # ""}
    IN  IF bad = {} THEN Returned([i \in 1..Len(rs) |-> rs[i].val])
        ELSE rs[CHOOSE i \in bad : \A j \in bad : i <= j]

\* x.get(...): only a dict has the method
GetOf(x, key, default) ==
    IF x.k = "obj" THEN Returned(Get(x, key, default))
    ELSE Raised("AttributeError", "get")

\* st.text_input(label, x.get(key, ''), key=...): the text the widget starts with
InputOf(x, key) ==
    LET r == GetOf(x, key, EmptyStr)
    IN  IF r.exc = "" THEN Returned(PyStr(r.val)) ELSE r

\* lines 330-338: the widgets of the personal information, from data
PersonalInfoWidgets(data) ==
    LET p_info == Get(data, "personal_info", Obj(EmptyDict))
        r == InOrder(<<InputOf(p_info, "NAME"), InputOf(p_info, "JOB_TITLE"),
                       InputOf(p_info, "email"), InputOf(p_info, "phone"),
                       InputOf(p_info, "city"), InputOf(p_info, "zip"),
                       InputOf(p_info, "country"), InputOf(p_info, "Linkedin")>>)
    IN  IF r.exc # "" THEN r
        ELSE Returned([p_NAME |-> r.val[1], p_JOB_TITLE |-> r.val[2],
                       p_email |-> r.val[3], p_phone |-> r.val[4],
                       p_city |-> r.val[5], p_zip |-> r.val[6],
                       p_country |-> r.val[7], p_Linkedin |-> r.val[8]])

\* lines 341-343: the two summary widgets; max_chars is left out
SummaryWidgets(data) ==
    LET summaries == Get(data, "summary_paragraphs", List(<<EmptyStr, EmptyStr>>))
        r == InOrder(<<ItemOrEmpty(summaries, 0), ItemOrEmpty(summaries, 1)>>)
    IN  IF r.exc # "" THEN r
        ELSE Returned([summary_1 |-> PyStr(r.val[1]), summary_2 |-> PyStr(r.val[2])])

\* lines 352-354: the "to" date shown for job i (from 0)
ToDateDisplay(to, i) == IF i = 0 /\ ~Truthy(to) THEN Str(Present) ELSE to

\* line 357: "\n".join(job.get('achievements', []))
AchievementsText(job) ==
    LET a == GetOf(job, "achievements", List(<< >>))
        items == IF a.exc = "" THEN Iter(a.val) ELSE a
    IN  IF items.exc = "" THEN JoinLines(items.val) ELSE items

\* lines 347-357: the widgets of job i (from 0)
JobWidgets(job, i) ==
    LET to == GetOf(job, "to", EmptyStr)
        r == InOrder(<<InputOf(job, "title"), InputOf(job, "company"),
                       InputOf(job, "from"),
                       IF to.exc = "" THEN Returned(PyStr(ToDateDisplay(to.val, i))) ELSE to,
                       InputOf(job, "responsibility"), AchievementsText(job)>>)
    IN  IF r.exc # "" THEN r
        ELSE Returned([we_title |-> r.val[1], we_company |-> r.val[2],
                       we_from |-> r.val[3], we_to |-> r.val[4],
                       we_resp |-> r.val[5], we_ach |-> r.val[6]])

\* lines 346-357: for i, job in enumerate(data.get('work_experience', [])[:10])
WorkWidgets(data) ==
    LET jobs == SliceTo(Get(data, "work_experience", List(<< >>)), MaxEntries)
    IN  IF jobs.exc # "" THEN jobs
        ELSE InOrder([i \in 1..Len(jobs.val) |-> JobWidgets(jobs.val[i], i - 1)])

\* lines 361-366: the widgets of one qualification
QualificationWidgets(edu) ==
    LET r == InOrder(<<InputOf(edu, "degree"), InputOf(edu, "graduation"),
                       InputOf(edu, "university"), InputOf(edu, "university_location"),
                       InputOf(edu, "university_country")>>)
    IN  IF r.exc # "" THEN r
        ELSE Returned([edu_degree |-> r.val[1], edu_graduation |-> r.val[2],
                       edu_university |-> r.val[3], edu_location |-> r.val[4],
                       edu_country |-> r.val[5]])

\* lines 360-366: for i, edu in enumerate(data.get('education', [])[:10])
EducationWidgets(data) ==
    LET entries == SliceTo(Get(data, "education", List(<< >>)), MaxEntries)
    IN  IF entries.exc # "" THEN entries
        ELSE InOrder([i \in 1..Len(entries.val) |-> QualificationWidgets(entries.val[i])])

\* lines 371 and 374: "\n".join(data.get(key, [])[:6])
LinesWidget(data, key) ==
    LET items == SliceTo(Get(data, key, List(<< >>)), MaxLines)
    IN  IF items.exc # "" THEN items ELSE JoinLines(items.val)

\* line 373: f"{l.get('language', '')}: {l.get('level', '')}"
LanguageLine(l) ==
    LET r == InOrder(<<InputOf(l, "language"), InputOf(l, "level")>>)
    IN  IF r.exc # "" THEN r ELSE Returned(Str(r.val[1] \o <<":", " ">> \o r.val[2]))

\* line 373: the widget of the languages
LanguagesWidget(data) ==
    LET ls == SliceTo(Get(data, "languages", List(<< >>)), MaxLines)
        lines == IF ls.exc # "" THEN ls
                 ELSE InOrder([i \in 1..Len(ls.val) |-> LanguageLine(ls.val[i])])
    IN  IF lines.exc # "" THEN lines ELSE JoinLines(lines.val)

\* lines 324-376: the form as first shown for data, every widget with the value
\* the code gives it: the widgets of the personal information, of the summary,
\* of the jobs, of the qualifications, of the skills, languages and hobbies;
\* an exception ends the script run
FormDefaults(data) ==
    InOrder(<<PersonalInfoWidgets(data), SummaryWidgets(data), WorkWidgets(data),
              EducationWidgets(data), LinesWidget(data, "skills"),
              LanguagesWidget(data), LinesWidget(data, "hobbies")>>)

\* a dict from its items, each a pair <<key, value>> with distinct keys
Dict(items) ==
    Obj([key \in {<<items[i][1]>> : i \in 1..Len(items)} |->
            items[CHOOSE i \in 1..Len(items) : items[i][1] = key[1]][2]])

Strs(texts) == List([i \in 1..Len(texts) |-> Str(texts[i])])

\* lines 396 and 405-406: the "to" date of job i (from 0) in the final context
\* as CurrentJobTo, the rule applied to every job
CurrentJobTo_every_job(to, i) ==
    IF Len(to) = 0 \/ lower(to) = <<"present">> THEN Present ELSE to

CurrentJobTo(to, i) ==
    IF i = 0 /\ (Len(to) = 0 \/ lower(to) = <<"present">>) THEN Present ELSE to

\* as job_data, the decoded entry kept and the edited fields laid over it
job_data_over_entry(w, i, job) ==
    Obj(Dict(<< <<"title", Str(w.we_title)>>, <<"company", Str(w.we_company)>>,
                <<"from", Str(w.we_from)>>, <<"to", Str(CurrentJobTo(w.we_to, i))>>,
                <<"responsibility", Str(w.we_resp)>>,
                <<"achievements", Strs(StrippedLines(w.we_ach))>> >>).v
        @@ (IF job.k = "obj" THEN job.v ELSE EmptyDict))

\* lines 397-406: job_data of job i (from 0) from its widgets w; job is the decoded entry
job_data(w, i, job) ==
    Dict(<< <<"title", Str(w.we_title)>>, <<"company", Str(w.we_company)>>,
            <<"from", Str(w.we_from)>>, <<"to", Str(CurrentJobTo(w.we_to, i))>>,
            <<"responsibility", Str(w.we_resp)>>,
            <<"achievements", Strs(StrippedLines(w.we_ach))>> >>)

\* the widgets of an entry the form did not show: every st.session_state.get gives ''
NoJobWidgets ==
    [we_title |-> << >>, we_company |-> << >>, we_from |-> << >>, we_to |-> << >>,
     we_resp |-> << >>, we_ach |-> << >>]

NoQualificationWidgets ==
    [edu_degree |-> << >>, edu_graduation |-> << >>, edu_university |-> << >>,
     edu_location |-> << >>, edu_country |-> << >>]

\* lines 393-408: work_experience_list
work_experience_list(session, data) ==
    LET work_experience_data == SliceTo(Get(data, "work_experience", List(<< >>)), MaxEntries)
    IN  IF work_experience_data.exc # "" THEN work_experience_data
        ELSE Returned(List([i \in 1..Len(work_experience_data.val) |->
                job_data(IF i <= Len(session[3]) THEN session[3][i] ELSE NoJobWidgets,
                         i - 1, work_experience_data.val[i])]))

\* lines 412-418: one entry of final_context['education']
education_entry(w) ==
    Dict(<< <<"degree", Str(w.edu_degree)>>, <<"graduation", Str(w.edu_graduation)>>,
            <<"university", Str(w.edu_university)>>,
            <<"university_location", Str(w.edu_location)>>,
            <<"university_country", Str(w.edu_country)>> >>)

\* lines 410-419: final_context['education']
education_list(session, data) ==
    LET education_data == SliceTo(Get(data, "education", List(<< >>)), MaxEntries)
    IN  IF education_data.exc # "" THEN education_data
        ELSE Returned(List([i \in 1..Len(education_data.val) |->
                education_entry(IF i <= Len(session[4]) THEN session[4][i]
                                ELSE NoQualificationWidgets)]))

\* xs[:cap], xs a sequence
Capped(xs, cap) == SubSeq(xs, 1, Min2(Len(xs), cap))

\* lines 421 and 423: [s.strip() for s in text.split('\n') if s.strip()][:6]
lines_list(text) == Strs(Capped(StrippedLines(text), MaxLines))

\* line 422: the languages, one for each line that holds a colon
languages_list(text) ==
    LET lines == split(text, "\n")
        with_colon == Keep(lines, [i \in 1..Len(lines) |-> find(lines[i], ":") # -1])
    IN  List(Capped([i \in 1..Len(with_colon) |->
                        Dict(<< <<"language", Str(strip(partition(with_colon[i], ":").head))>>,
                                <<"level", Str(strip(partition(with_colon[i], ":").tail))>> >>)],
                    MaxLines))

\* lines 381-423: final_context, built from the widgets of the form (session, as FormDefaults lays them out) and
\* the stored record (data)
final_context_of(session, data) ==
    LET r == InOrder(<<work_experience_list(session, data), education_list(session, data)>>)
    IN  IF r.exc # "" THEN r
        ELSE Returned(Dict(<<
                <<"NAME", Str(session[1].p_NAME)>>, <<"JOB_TITLE", Str(session[1].p_JOB_TITLE)>>,
                <<"phone", Str(session[1].p_phone)>>, <<"email", Str(session[1].p_email)>>,
                <<"city", Str(session[1].p_city)>>, <<"zip", Str(session[1].p_zip)>>,
                <<"country", Str(session[1].p_country)>>, <<"Linkedin", Str(session[1].p_Linkedin)>>,
                <<"summary_paragraph_1", Str(session[2].summary_1)>>,
                <<"summary_paragraph_2", Str(session[2].summary_2)>>,
                <<"work_experience", r.val[1]>>, <<"education", r.val[2]>>,
                <<"skills", lines_list(session[5])>>,
                <<"languages", languages_list(session[6])>>,
                <<"hobbies", lines_list(session[7])>> >>))

-----------------------------------------------------------------------------
(* The form code run on its own: the record st.session_state.cv_data is    *)
(* any non-empty decoded object (lines 316-317 and 324 let no other value  *)
(* reach the form), and the form is submitted as first shown.              *)

\* the objects that hold some of the items of values, a dict
ObjectsOver(values) == {Obj([key \in ks |-> values[key]]) : ks \in SUBSET DOMAIN values}

\* the lists of at most n entries taken from S
ListsOver(S, n) == {List(xs) : xs \in UNION {[1..m -> S] : m \in 0..n}}

Field(key, value) == Obj(<<key>> :> value)

\* decoded values of any type
AnyValues ==
    {Str(<<"a", "b">>), EmptyStr, None, Num(1), List(<< >>), List(<<Num(1)>>),
     Obj(EmptyDict), Field("a", Str(<<"a">>))}

\* entries of work_experience: with some of three keys, ...
JobEntries ==
    ObjectsOver((<<"title">> :> Str(<<"Dev">>)) @@ (<<"to">> :> Str(<<"2020">>)) @@
                (<<"job_title">> :> Str(<<"Lead">>)))

\* ... with every key of the form, with the keys of the extraction prompt, and
\* with achievements of any type
MoreJobEntries ==
    {Obj((<<"title">> :> Str(<<"Dev">>)) @@ (<<"company">> :> Str(<<"ACME">>)) @@
         (<<"from">> :> Str(<<"2019">>)) @@ (<<"to">> :> to) @@
         (<<"responsibility">> :> Str(<<"Builds">>)) @@
         (<<"achievements">> :> List(<<Str(<<"Led">>), Str(<<" ">>)>>))) :
        to \in {EmptyStr, Str(<<"PRESENT">>), Str(<<"2020">>)}}
    \cup {Obj((<<"job_title">> :> Str(<<"Lead">>)) @@ (<<"from_date">> :> Str(<<"2018">>)) @@
              (<<"to_date">> :> Str(<<"2021">>)) @@ (<<"company">> :> Str(<<"ACME">>)) @@
              (<<"extra">> :> Str(<<"x">>)))}
    \cup {Field("achievements", a) : a \in AnyValues \cup {List(<<Str(<<"Led">>)>>)}}

EducationEntries ==
    ObjectsOver((<<"degree">> :> Str(<<"MSc">>)) @@
                (<<"graduation_date">> :> Str(<<"2016">>)) @@
                (<<"extra">> :> Str(<<"x">>)))

MoreEducationEntries ==
    {Obj((<<"degree">> :> Str(<<"BSc">>)) @@ (<<"graduation">> :> Str(<<"2012">>)) @@
         (<<"university">> :> Str(<<"ETH">>)) @@
         (<<"university_location">> :> Str(<<"Zurich">>)) @@
         (<<"university_country">> :> Str(<<"CH">>)))}

LineEntries == {Str(<<"a">>), EmptyStr, Str(<<" ", "b", " ">>), Str(<<"c", "\n", "d">>)}

LanguageEntries ==
    ObjectsOver((<<"language">> :> Str(<<"en">>)) @@ (<<"level">> :> Str(<<"C1">>)))
    \cup {Obj((<<"language">> :> Str(<<"a", ":", "b">>)) @@ (<<"level">> :> Str(<<"B2">>)))}

PersonalInfos ==
    ObjectsOver((<<"NAME">> :> Str(<<"Ann", " ", "Lee">>)) @@
                (<<"email">> :> Str(<<"ann@lee">>)) @@ (<<"name">> :> Str(<<"alice">>)))

\* line 97 of the rewriting prompt: 1 to 3 achievements per position
MaxAchievements == 3

Letters == <<"a", "b", "c", "d", "e", "f", "g", "h", "i", "j", "k", "l", "m", "n", "o",
             "p", "q", "r", "s", "t", "u", "v", "w", "x", "y", "z">>

\* n > 0 distinct lines, n distinct jobs, n distinct qualifications
LongLines(n) == List([i \in 1..n |-> Str(<<Letters[i]>>)])

LongWork(n) == List([i \in 1..n |-> Field("title", Str(<<Letters[i]>>))])

LongEducation(n) == List([i \in 1..n |-> Field("degree", Str(<<Letters[i]>>))])

\* the values a key of the record is given
ValuesOf(key) ==
    AnyValues \cup {List(<<v>>) : v \in AnyValues} \cup
    CASE key = "personal_info" -> PersonalInfos
      [] key = "summary_paragraphs" ->
            {List(SubSeq(<<Str(<<"S1">>), Str(<<"S2">>), Str(<<"S3">>)>>, 1, n)) : n \in 0..3}
      [] key = "work_experience" ->
            ListsOver(JobEntries, MaxItems) \cup {List(<<e>>) : e \in MoreJobEntries}
                \cup {LongWork(MaxEntries), LongWork(MaxEntries + 1), LongWork(2 * MaxEntries)}
                \cup {List(<<Field("achievements", LongLines(n))>>) :
                         n \in {MaxAchievements, MaxAchievements + 1}}
      [] key = "education" ->
            ListsOver(EducationEntries, MaxItems)
                \cup {List(<<e>>) : e \in MoreEducationEntries}
                \cup {LongEducation(MaxEntries), LongEducation(MaxEntries + 1)}
      [] key = "languages" -> ListsOver(LanguageEntries, MaxItems)
      [] OTHER ->
            ListsOver(LineEntries, MaxItems)
                \cup {LongLines(MaxLines), LongLines(MaxLines + 1),
                      List(<<Str(<<"a">>), EmptyStr>> \o SubSeq(LongLines(MaxLines).v, 3, 6)
                           \o <<Str(<<"g">>)>>)}

RecordKeys ==
    {"personal_info", "summary_paragraphs", "work_experience", "education", "skills",
     "languages", "hobbies"}

\* a record with an entry for every key
FullRecord ==
    Obj((<<"personal_info">> :> Field("NAME", Str(<<"Ann", " ", "Lee">>))) @@
        (<<"summary_paragraphs">> :> List(<<Str(<<"S1">>), Str(<<"S2">>)>>)) @@
        (<<"work_experience">> :> List(<<Field("title", Str(<<"Dev">>)),
                                          Field("title", Str(<<"Intern">>))>>)) @@
        (<<"education">> :> List(<<Field("degree", Str(<<"MSc">>))>>)) @@
        (<<"skills">> :> List(<<Str(<<"R", "&", "D">>)>>)) @@
        (<<"languages">> :> List(<<Obj((<<"language">> :> Str(<<"en">>)) @@
                                         (<<"level">> :> Str(<<"C1">>)))>>)) @@
        (<<"hobbies">> :> List(<<Str(<<"chess">>)>>)))

Records ==
    UNION {{Field(key, v) : v \in ValuesOf(key)} : key \in RecordKeys}
    \cup {FullRecord, Field("a", Str(<<"a">>))}

NormalizerInit ==
    /\ cv_data \in Records
    /\ RunIdle
    /\ variant = "app_gemini.py"
    /\ dec_src = NoSource
    /\ raw_text_from_ai = << >>
    /\ dec_out = Pending
    /\ uploaded_file = NoFile
    /\ ext_out = ExtPending

\* lines 324-376 on the record: the form is shown
ShowForm ==
    /\ ~norm_out.done /\ ~form.shown
    /\ \E f \in {FormDefaults(cv_data)} :
           IF f.exc # ""
           THEN norm_out' = [done |-> TRUE] @@ f /\ UNCHANGED form
           ELSE form' = [shown |-> TRUE, w |-> f.val] /\ UNCHANGED norm_out
    /\ UNCHANGED <<norm_again, gateVars, decVars, extVars, appVars, variant, language_selection,
                   uploaded_pic, final_context, rendered, download, disk, n_renders,
                   n_generates>>

\* lines 378-423: the form is submitted as it was shown
SubmitForm ==
    /\ ~norm_out.done /\ form.shown
    /\ norm_out' = [done |-> TRUE] @@ final_context_of(form.w, cv_data)
    /\ form' = NoForm
    /\ UNCHANGED <<norm_again, gateVars, decVars, extVars, appVars, variant, language_selection,
                   uploaded_pic, final_context, rendered, download, disk, n_renders,
                   n_generates>>

\* lines 324-376 again, the final context taken as the record
ShowFormAgain ==
    /\ norm_out.done /\ norm_out.exc = ""
    /\ ~norm_again.done /\ ~form.shown
    /\ \E f \in {FormDefaults(norm_out.val)} :
           IF f.exc # ""
           THEN norm_again' = [done |-> TRUE] @@ f /\ UNCHANGED form
           ELSE form' = [shown |-> TRUE, w |-> f.val] /\ UNCHANGED norm_again
    /\ UNCHANGED <<norm_out, gateVars, decVars, extVars, appVars, variant, language_selection,
                   uploaded_pic, final_context, rendered, download, disk, n_renders,
                   n_generates>>

\* lines 378-423 again
SubmitFormAgain ==
    /\ norm_out.done /\ ~norm_again.done /\ form.shown
    /\ norm_again' = [done |-> TRUE] @@ final_context_of(form.w, norm_out.val)
    /\ form' = NoForm
    /\ UNCHANGED <<norm_out, gateVars, decVars, extVars, appVars, variant, language_selection,
                   uploaded_pic, final_context, rendered, download, disk, n_renders,
                   n_generates>>

NormalizerNext == ShowForm \/ SubmitForm \/ ShowFormAgain \/ SubmitFormAgain

SpecNormalizer == NormalizerInit /\ [][NormalizerNext]_vars

-----------------------------------------------------------------------------
(* Claims about the form code, checked under SpecNormalizer.               *)

\* the form was shown and submitted without an exception
Normalized == norm_out.done /\ norm_out.exc = ""

\* the entry of the final context under key
Final(key) == norm_out.val.v[<<key>>]

\* the decoded value under key, a list when the key is absent
Decoded(key) == Get(cv_data, key, List(<< >>))

CapOf(key) == IF key \in {"work_experience", "education"} THEN MaxEntries ELSE MaxLines

FirstEntries(key) == Capped(Decoded(key).v, CapOf(key))

RECURSIVE LinesOfEntries(_)
\* the lines of the entries es (strings), entry after entry
LinesOfEntries(es) ==
    IF es = << >> THEN << >> ELSE split(es[1].v, "\n") \o LinesOfEntries(Tail(es))

\* the lines ls without the blank ones, each without the white space around it
NonBlank(ls) ==
    Keep([i \in 1..Len(ls) |-> Str(strip(ls[i]))],
         [i \in 1..Len(ls) |-> \E j \in 1..Len(ls[i]) : ls[i][j] \notin Whitespace])

\* a string of one line, not blank, without white space around it
CleanLine(e) == e.k = "str" /\ e.v # << >> /\ \A j \in 1..Len(e.v) : e.v[j] \notin Whitespace

C13_Idempotent ==
    norm_again.done => (norm_again.exc = "" /\ norm_again.val = norm_out.val)

\* C14: normalization is total: whatever the types of the values of the decoded
\* object, no error is raised.
C14_Total == norm_out.done => norm_out.exc = ""

\* the decoded entries of a list that reach the final record: index and entry
Kept(key) ==
    {i \in 1..Min2(Len(Decoded(key).v), CapOf(key)) : Decoded(key).v[i].k = "obj"}

Renamed(key, i, old, new) ==
    (<<old>> \in DOMAIN Decoded(key).v[i].v /\ <<new>> \notin DOMAIN Decoded(key).v[i].v)
        => Final(key).v[i].v[<<new>>] = Decoded(key).v[i].v[<<old>>]

\* C15: a decoded work-experience entry that carries job_title, from_date,
\* to_date, and a decoded education entry that carries graduation_date, have
\* those values under title, from, to and graduation in the final record.
C15_KeyRenamesApplied ==
    (Normalized /\ Decoded("work_experience").k = "list" /\ Decoded("education").k = "list") =>
        /\ \A i \in Kept("work_experience") :
               /\ Renamed("work_experience", i, "job_title", "title")
               /\ Renamed("work_experience", i, "from_date", "from")
               /\ Renamed("work_experience", i, "to_date", "to")
        /\ \A i \in Kept("education") : Renamed("education", i, "graduation_date", "graduation")

JobKeys ==
    {<<"title">>, <<"company">>, <<"from">>, <<"to">>, <<"responsibility">>,
     <<"achievements">>}

EducationKeys ==
    {<<"degree">>, <<"graduation">>, <<"university">>, <<"university_location">>,
     <<"university_country">>}

\* the zero value of a key of an entry
ZeroOf(key) == IF key = <<"achievements">> THEN List(<< >>) ELSE EmptyStr

\* every entry of the final list under key has exactly the keys keys
ExactKeys(key, keys) == \A i \in 1..Len(Final(key).v) : DOMAIN Final(key).v[i].v = keys

\* every key of keys absent from a decoded entry has the value Default(i, k)
\* in the final entry
AbsentKeysAre(key, keys, Default(_, _)) ==
    \A i \in Kept(key) : \A k \in keys \ DOMAIN Decoded(key).v[i].v :
        Final(key).v[i].v[k] = Default(i, k)

ZeroEverywhere(i, k) == ZeroOf(k)

ZeroButCurrentJob(i, k) == IF i = 1 /\ k = <<"to">> THEN Str(Present) ELSE ZeroOf(k)

\* C16 as stated: every work-experience entry of the final record has exactly
\* the six keys and every education entry exactly the five; every recognised key
\* absent from the decoded entry has its zero value, the first job's "to" included.
C16_AbsentKeysEmpty ==
    (Normalized /\ Decoded("work_experience").k = "list" /\ Decoded("education").k = "list") =>
        /\ ExactKeys("work_experience", JobKeys)
        /\ ExactKeys("education", EducationKeys)
        /\ AbsentKeysAre("work_experience", JobKeys, ZeroEverywhere)
        /\ AbsentKeysAre("education", EducationKeys, ZeroEverywhere)

\* C16 amended: as above, except that the "to" of the first job is 'Present'
\* when the decoded entry has none.
C16_FixedKeySets ==
    (Normalized /\ Decoded("work_experience").k = "list" /\ Decoded("education").k = "list") =>
        /\ ExactKeys("work_experience", JobKeys)
        /\ ExactKeys("education", EducationKeys)
        /\ AbsentKeysAre("work_experience", JobKeys, ZeroButCurrentJob)
        /\ AbsentKeysAre("education", EducationKeys, ZeroEverywhere)

\* two jobs decoded without a "to" date and with an unrecognised key: in the
\* final record the first is current, the second has no "to" date
C16_Witness ==
    /\ Normalized
    /\ cv_data = Field("work_experience",
                       List(<<Field("job_title", Str(<<"Lead">>)),
                              Field("job_title", Str(<<"Lead">>))>>))
    /\ Final("work_experience").v[1].v[<<"to">>] = Str(Present)
    /\ Final("work_experience").v[2].v[<<"to">>] = EmptyStr
    /\ Final("work_experience").v[1].v[<<"title">>] = EmptyStr

-----------------------------------------------------------------------------
(* run_the_app, the handler of the Analyse button (app_gemini.py 296-322,  *)
(* app_gemini_2languages.py 326-352), one step per statement that calls    *)
(* out; a script run goes from "idle" through its steps back to "idle".    *)

\* line 305: the separator between the pieces
Separator == <<"\n", "\n", "--- DOCUMENT SEPARATOR ---", "\n", "\n">>

\* the files a user can upload
FileCatalog ==
    {[name |-> "hello.pdf", type |-> PDF, readable |-> TRUE,
      parts |-> <<Str(<<"Hello">>), None>>],
     [name |-> "scan.pdf", type |-> PDF, readable |-> TRUE,
      parts |-> <<Str(<< >>), None>>],
     [name |-> "job.docx", type |-> DOCX, readable |-> TRUE,
      parts |-> <<Str(<<"Job">>), Str(<< >>), Str(<<"Tasks">>)>>],
     [name |-> "broken.docx", type |-> DOCX, readable |-> FALSE,
      parts |-> <<Str(<<"Lost">>)>>],
     [name |-> "photo.docx", type |-> "image/png", readable |-> TRUE,
      parts |-> <<Str(<<"Pixels">>)>>]}

\* the uploads of one action: distinct files, in upload order
Uploads ==
    {fs \in UNION {[1..n -> FileCatalog] : n \in 0..MaxFiles} :
        \A i, j \in 1..Len(fs) : i # j => fs[i] # fs[j]}

FreeTexts == {<< >>, <<"World">>, <<" ">>}

\* what model.generate_content(prompt) followed by response.text can give
GatewayTexts ==
    {Wrap("json", <<"{", Quote, "a", Quote, ":", Quote, "a", Quote, "}">>),
     <<"{", Quote, "n", Quote, ":", "[", "1", ",", "]", ",", "}">>,
     <<"{", "}">>,
     <<"a">>,
     <<"{", Quote, "a", Quote, "}">>}

GatewayOutcomes ==
    {[kind |-> "raise", text |-> << >>], [kind |-> "no_parts", text |-> << >>]}
    \cup {[kind |-> "text", text |-> t] : t \in GatewayTexts}

Event(op, stage, file) == [op |-> op, stage |-> stage, file |-> file]

\* as InitialTexts, without the test of the free text
InitialTexts_unconditional(free) == <<free>>

\* line 297: all_texts = [free_text_input] if free_text_input else []
InitialTexts(free) == IF Len(free) > 0 THEN <<free>> ELSE << >>

\* as WithText, the text of a file put in front of the texts gathered so far
WithText_in_front(texts, text) == IF Len(text) > 0 THEN <<text>> \o texts ELSE texts

\* line 301: if text: all_texts.append(text)
WithText(texts, text) == IF Len(text) > 0 THEN Append(texts, text) ELSE texts

\* as Consolidate, every piece followed by the separator
Consolidate_terminated(texts) == Join(Separator, texts) \o Separator

\* line 305: "\n\n--- DOCUMENT SEPARATOR ---\n\n".join(all_texts)
Consolidate(texts) == Join(Separator, texts)

\* line 216 / 226: "except Exception" around the call and the decoder
StageError(stage) == Shown("error", "An unexpected error occurred", <<stage>>)

\* lines 215-218 / 225-228: the outcome d of robust_json_parser(response.text);
\* an exception that leaves the decoder is caught here and reported
after_decoder(d, stage) ==
    IF d.escaped THEN [ret |-> None, shown |-> <<StageError(stage)>>]
    ELSE [ret |-> d.ret, shown |-> d.shown]

\* lines 210-218 and 220-228 (extract_raw_data, rewrite_extracted_data) on the
\* outcome r of model.generate_content(prompt) and response.text
ai_step(r, stage) ==
    IF r.kind = "raise" THEN [ret |-> None, shown |-> <<StageError(stage)>>]
    ELSE IF r.kind = "no_parts" THEN [ret |-> None, shown |-> << >>]
    ELSE after_decoder(robust_json_parser(r.text), stage)

\* as AfterExtraction, the extraction call made again when it gave nothing
AfterExtraction_retry(data) == IF Truthy(data) THEN "rewrite_call" ELSE "extract_call"

\* as AfterExtraction, the rewrite call made whatever the extraction gave
AfterExtraction_always_rewrite(data) == "rewrite_call"

\* lines 309 and 322: if extracted_data: ... else: st.error("AI Extraction Failed.")
AfterExtraction(data) == IF Truthy(data) THEN "rewrite_call" ELSE "form"

Variants == {"app_gemini.py", "app_gemini_2languages.py"}

AppInit ==
    /\ AppIdle
    /\ variant = "app_gemini.py"
    /\ dec_src = NoSource
    /\ raw_text_from_ai = << >>
    /\ dec_out = Pending
    /\ uploaded_file = NoFile
    /\ ext_out = ExtPending

\* line 296-298: the button is pressed with these widget values
ClickAnalyse(files, free) ==
    /\ pc = "idle"
    /\ n_actions < MaxActions
    /\ n_actions' = n_actions + 1
    /\ uploaded_files' = files
    /\ free_text_input' = free
    /\ all_texts' = InitialTexts(free)
    /\ file_idx' = 1
    /\ cv_at_click' = cv_data
    /\ pc' = IF Len(files) > 0 THEN "files" ELSE "check_input"
    /\ UNCHANGED <<cv_data, consolidated_text, extracted_data, rewritten_data, response,
                   ui, events, gateVars, decVars, extVars, normVars, docVars>>

\* lines 299-301: one turn of "for file in uploaded_files"
ExtractNextFile ==
    /\ pc = "files"
    /\ \E r \in {extract_text_from_file(uploaded_files[file_idx])} :
           /\ events' = Append(events, Event("extract_text_from_file", "", file_idx))
           /\ ui' = ui \o r.shown
           /\ IF r.escaped
              THEN /\ pc' = "aborted"
                   /\ UNCHANGED <<all_texts, file_idx>>
              ELSE /\ all_texts' = WithText(all_texts, r.ret)
                   /\ file_idx' = file_idx + 1
                   /\ pc' = IF file_idx < Len(uploaded_files) THEN "files" ELSE "check_input"
    /\ UNCHANGED <<cv_data, uploaded_files, free_text_input, consolidated_text,
                   extracted_data, rewritten_data, response, cv_at_click, n_actions,
                   gateVars, decVars, extVars, normVars, docVars>>

\* lines 302-306: the test for input, and the consolidation
CheckInput ==
    /\ pc = "check_input"
    /\ IF all_texts = << >>
       THEN /\ ui' = Append(ui, Shown("warning", "Please upload at least one file or provide some text.", << >>))
            /\ pc' = "form"
            /\ UNCHANGED consolidated_text
       ELSE /\ consolidated_text' = Consolidate(all_texts)
            /\ pc' = "extract_call"
            /\ UNCHANGED ui
    /\ UNCHANGED <<cv_data, uploaded_files, free_text_input, file_idx, all_texts,
                   extracted_data, rewritten_data, response, events, cv_at_click,
                   n_actions, gateVars, decVars, extVars, normVars, docVars>>

\* lines 307-310 and 322: extract_raw_data(extraction_prompt) and the test of its result
ExtractRawData(r) ==
    /\ pc = "extract_call"
    /\ response' = r
    /\ \E a \in {ai_step(r, "extraction")} :
           /\ extracted_data' = a.ret
           /\ events' = Append(events, Event("generate_content", "extraction", 0))
           /\ pc' = AfterExtraction(a.ret)
           /\ ui' = ui \o a.shown \o
                    <<IF Truthy(a.ret) THEN Shown("info", "Raw data extracted.", << >>)
                      ELSE Shown("error", "AI Extraction Failed.", << >>)>>
    /\ UNCHANGED <<cv_data, uploaded_files, free_text_input, file_idx, all_texts,
                   consolidated_text, rewritten_data, cv_at_click, n_actions,
                   gateVars, decVars, extVars, normVars, docVars>>

\* lines 311-321: rewrite_extracted_data(rewriting_prompt) and the test of its result
RewriteExtractedData(r) ==
    /\ pc = "rewrite_call"
    /\ response' = r
    /\ \E a \in {ai_step(r, "rewrite")} :
           /\ rewritten_data' = a.ret
           /\ events' = Append(events, Event("generate_content", "rewrite", 0))
           /\ cv_data' = IF Truthy(a.ret) THEN a.ret ELSE cv_data
           /\ n_renders' = IF Truthy(a.ret) THEN 0 ELSE n_renders
           /\ ui' = ui \o a.shown \o
                    <<IF Truthy(a.ret) THEN Shown("success", "The form is filled.", << >>)
                      ELSE Shown("error", "AI Rewriting Failed.", << >>)>>
    /\ pc' = "form"
    /\ UNCHANGED <<uploaded_files, free_text_input, file_idx, all_texts,
                   consolidated_text, extracted_data, cv_at_click, n_actions,
                   gateVars, decVars, extVars, normVars, variant, form, language_selection,
                   uploaded_pic, final_context, rendered, download, disk, n_generates>>

\* lines 324-376 at the end of an Analyse run: the form is shown when a record
\* is stored.  Its widgets start from the record when the record is new, and
\* keep their values otherwise; an exception of the form code ends the run.
RenderForm ==
    /\ pc = "form"
    /\ IF ~Truthy(cv_data) THEN form' = NoForm /\ pc' = "end"
       ELSE IF form.shown /\ cv_data = cv_at_click THEN UNCHANGED form /\ pc' = "end"
       ELSE \E f \in {FormDefaults(cv_data)} :
                IF f.exc # "" THEN form' = NoForm /\ pc' = "form_raised"
                ELSE form' = [shown |-> TRUE, w |-> f.val] /\ pc' = "end"
    /\ UNCHANGED <<cv_data, uploaded_files, free_text_input, file_idx, all_texts,
                   consolidated_text, extracted_data, rewritten_data, response, ui,
                   events, cv_at_click, n_actions, gateVars, decVars, extVars, normVars, variant,
                   language_selection, uploaded_pic, final_context, rendered, download,
                   disk, n_renders, n_generates>>

\* the script run ends: its locals and what it has shown are gone, and the next
\* run starts from a fresh page and the widget values it is given
FinishRun ==
    /\ pc \in {"end", "aborted", "form_raised"}
    /\ pc' = "idle"
    /\ uploaded_files' = << >>
    /\ free_text_input' = << >>
    /\ file_idx' = 0
    /\ all_texts' = << >>
    /\ consolidated_text' = << >>
    /\ extracted_data' = None
    /\ rewritten_data' = None
    /\ response' = NoResponse
    /\ ui' = << >>
    /\ events' = << >>
    /\ language_selection' = "English"
    /\ uploaded_pic' = NoPicture
    /\ final_context' = None
    /\ rendered' = NoRender
    /\ download' = NoDownload
    /\ UNCHANGED <<cv_data, cv_at_click, n_actions, gateVars, decVars, extVars, normVars, variant,
                   form, disk, n_renders, n_generates>>

Next ==
    \/ \E files \in Uploads, free \in FreeTexts : ClickAnalyse(files, free)
    \/ ExtractNextFile
    \/ CheckInput
    \/ \E r \in GatewayOutcomes : ExtractRawData(r)
    \/ \E r \in GatewayOutcomes : RewriteExtractedData(r)
    \/ RenderForm
    \/ FinishRun

Spec == AppInit /\ [][Next]_vars

-----------------------------------------------------------------------------
(* Claims about the Analyse action, checked under Spec.                    *)

IsNonEmpty(t) == Len(t) > 0

\* the text each file of the batch yields
FileTexts(files) == [i \in 1..Len(files) |-> extract_text_from_file(files[i]).ret]

GatewayCalls(stage) ==
    Cardinality({i \in 1..Len(events) :
                    events[i].op = "generate_content" /\ events[i].stage = stage})

ShownInUi(entry) == \E i \in 1..Len(ui) : ui[i] = entry

\* the positions of a run whose Analyse handler (lines 293-322) has returned
AfterHandler == {"form", "end", "form_raised"}

ErrorShown == \E i \in 1..Len(ui) : ui[i].kind = "error"

\* the stage that made the last gateway call gave nothing the handler can use
LastStageFailed ==
    /\ response.kind # "none"
    /\ ~Truthy(ai_step(response, "").ret)

LastStage == events[Len(events)].stage

\* C4: no automatic retry.  In one Analyse action the extraction stage and the
\* rewrite stage each call the gateway at most once; when a call fails or its
\* response cannot be decoded the run is over (no further call), an error is shown,
\* and a response that could not be decoded is shown raw.
C4_NoAutomaticRetry ==
    /\ GatewayCalls("extraction") <= 1
    /\ GatewayCalls("rewrite") <= 1
    /\ LastStageFailed =>
        /\ pc \in AfterHandler
        /\ events[Len(events)].op = "generate_content"
        /\ ErrorShown
        /\ ShownInUi(Shown("error", IF LastStage = "extraction" THEN "AI Extraction Failed."
                                    ELSE "AI Rewriting Failed.", << >>))
        /\ response.kind = "raise" => ShownInUi(StageError(LastStage))
        /\ (response.kind = "text" /\ robust_json_parser(response.text).ret = None)
            => ShownInUi(Shown("text_area", "Raw AI output:", response.text))
        /\ LastStage = "extraction" => GatewayCalls("rewrite") = 0

C4_Witness ==
    /\ pc = "form"
    /\ LastStageFailed
    /\ LastStage = "rewrite"
    /\ response = [kind |-> "text", text |-> <<"a">>]
    /\ ShownInUi(Shown("text_area", "Raw AI output:", <<"a">>))
    /\ GatewayCalls("extraction") = 1 /\ GatewayCalls("rewrite") = 1

\* the handler has computed consolidated_text
Consolidated ==
    \/ pc \in {"extract_call", "rewrite_call"}
    \/ pc \in AfterHandler /\ all_texts # << >>

\* C5 (as claimed): the extracted file texts come first, in upload order, and the
\* free text comes last; ["", "Hello", ""] with free text "World" gives
\* "Hello" + separator + "World".
C5_FilesFirstFreeTextLast ==
    Consolidated =>
        /\ consolidated_text =
             Join(Separator,
                  SelectSeq(FileTexts(uploaded_files) \o <<free_text_input>>, IsNonEmpty))
        /\ (FileTexts(uploaded_files) = << << >>, <<"Hello">>, << >> >>
                /\ free_text_input = <<"World">>)
            => consolidated_text = <<"Hello">> \o Separator \o <<"World">>

\* C5 (amended): the free text comes first and the extracted file texts follow, in
\* upload order; ["", "Hello", ""] with free text "World" gives
\* "World" + separator + "Hello".
C5_FreeTextFirstFilesInOrder ==
    Consolidated =>
        /\ consolidated_text =
             Join(Separator,
                  SelectSeq(<<free_text_input>> \o FileTexts(uploaded_files), IsNonEmpty))
        /\ (FileTexts(uploaded_files) = << << >>, <<"Hello">>, << >> >>
                /\ free_text_input = <<"World">>)
            => consolidated_text = <<"World">> \o Separator \o <<"Hello">>

C5_Witness ==
    /\ Consolidated
    /\ FileTexts(uploaded_files) = << << >>, <<"Hello">>, << >> >>
    /\ free_text_input = <<"World">>
    /\ consolidated_text = <<"World">> \o Separator \o <<"Hello">>

RECURSIVE TotalLen(_)
TotalLen(ps) == IF ps = << >> THEN 0 ELSE Len(Head(ps)) + TotalLen(Tail(ps))

\* where piece i begins in the join of the pieces ps
PieceStart(ps, i) == TotalLen(SubSeq(ps, 1, i - 1)) + (i - 1) * Len(Separator) + 1

\* the non-empty pieces of the action: the free text and the file texts
NonEmptyPieces ==
    SelectSeq(<<free_text_input>> \o FileTexts(uploaded_files), IsNonEmpty)

SeparatorLines(t) ==
    Cardinality({i \in 1..Len(t) : t[i] = "--- DOCUMENT SEPARATOR ---"})

\* C6: the consolidated text is made of the k non-empty pieces and nothing else:
\* each piece stands in it whole, the separator stands between consecutive pieces,
\* k - 1 times in all, and neither before the first piece nor after the last;
\* empty pieces contribute nothing.
C6_JoinOfNonEmptyPieces ==
    Consolidated =>
        LET P == NonEmptyPieces
            k == Len(P)
        IN  /\ k >= 1
            /\ Len(consolidated_text) = TotalLen(P) + (k - 1) * Len(Separator)
            /\ \A i \in 1..k :
                 SubSeq(consolidated_text, PieceStart(P, i),
                        PieceStart(P, i) + Len(P[i]) - 1) = P[i]
            /\ \A i \in 1..(k - 1) :
                 SubSeq(consolidated_text, PieceStart(P, i) + Len(P[i]),
                        PieceStart(P, i + 1) - 1) = Separator
            /\ SeparatorLines(consolidated_text) = k - 1

C6_Witness ==
    /\ Consolidated
    /\ Len(uploaded_files) = 3
    /\ Len(NonEmptyPieces) = 3
    /\ \E i \in 1..3 : FileTexts(uploaded_files)[i] = << >>
    /\ SeparatorLines(consolidated_text) = 2

\* there is no input: no free text, and no file that yields text
EmptyInput ==
    /\ free_text_input = << >>
    /\ \A i \in 1..Len(uploaded_files) : FileTexts(uploaded_files)[i] = << >>

EmptyInputWarning ==
    Shown("warning", "Please upload at least one file or provide some text.", << >>)

\* C7: when the free text is empty and no uploaded file yields text, the Analyse
\* action shows the empty-input warning, never calls the gateway, and leaves
\* cv_data as it was.
C7_EmptyInputStopsBeforeGateway ==
    (pc # "idle" /\ EmptyInput) =>
        /\ pc \in {"files", "check_input"} \cup AfterHandler
        /\ GatewayCalls("extraction") = 0
        /\ GatewayCalls("rewrite") = 0
        /\ response = NoResponse
        /\ cv_data = cv_at_click
        /\ pc \in AfterHandler => ShownInUi(EmptyInputWarning)

C7_Witness ==
    /\ pc = "form"
    /\ EmptyInput
    /\ Len(uploaded_files) = 2
    /\ cv_data # None
    /\ ShownInUi(EmptyInputWarning)

\* extraction of file i of the batch raises
Raises(file) == file.type \in {PDF, DOCX} /\ ~file.readable

DoesNotRaise(file) == ~Raises(file)

ExtractionEvents(i) ==
    Cardinality({j \in 1..Len(events) :
                    events[j].op = "extract_text_from_file" /\ events[j].file = i})

FileErrors(name) ==
    Cardinality({j \in 1..Len(ui) : ui[j] = Shown("error", "Error reading file:", <<name>>)})

\* the pieces the action would gather had the files whose extraction raises not
\* been uploaded
PiecesWithoutFailing ==
    SelectSeq(<<free_text_input>> \o FileTexts(SelectSeq(uploaded_files, DoesNotRaise)),
              IsNonEmpty)

\* C9: a file whose extraction raises is attempted exactly once and reported by
\* name, the run goes on, every other file is extracted once, and the pieces and the
\* consolidated text are those of the batch without the failing file.
C9_FailingFileIsSkipped ==
    /\ pc # "aborted"
    /\ (pc \in {"check_input", "extract_call", "rewrite_call"} \cup AfterHandler
            /\ \E i \in 1..Len(uploaded_files) : Raises(uploaded_files[i]))
        => /\ \A i \in 1..Len(uploaded_files) :
                /\ ExtractionEvents(i) = 1
                /\ FileErrors(uploaded_files[i].name)
                     = IF Raises(uploaded_files[i]) THEN 1 ELSE 0
           /\ all_texts = PiecesWithoutFailing
           /\ Consolidated => consolidated_text = Join(Separator, PiecesWithoutFailing)

C9_Witness ==
    /\ pc = "extract_call"
    /\ Len(uploaded_files) = 3
    /\ uploaded_files[1].name = "hello.pdf"
    /\ uploaded_files[2].name = "broken.docx"
    /\ uploaded_files[3].name = "job.docx"
    /\ FileErrors("broken.docx") = 1
    /\ consolidated_text = <<"Hello">> \o Separator \o <<"Job", "\n", "\n", "Tasks">>

\* the record of the claim C11: every list empty, both summary paragraphs and every
\* field of the personal information the empty string
EmptyRecord ==
    Dict(<< <<"NAME", EmptyStr>>, <<"JOB_TITLE", EmptyStr>>, <<"phone", EmptyStr>>,
            <<"email", EmptyStr>>, <<"city", EmptyStr>>, <<"zip", EmptyStr>>,
            <<"country", EmptyStr>>, <<"Linkedin", EmptyStr>>,
            <<"summary_paragraph_1", EmptyStr>>, <<"summary_paragraph_2", EmptyStr>>,
            <<"work_experience", List(<< >>)>>, <<"education", List(<< >>)>>,
            <<"skills", List(<< >>)>>, <<"languages", List(<< >>)>>,
            <<"hobbies", List(<< >>)>> >>)

\* C11: normalizing the empty decoded object {} yields the record with every list
\* empty, two empty summary paragraphs and every personal field the empty string:
\* when the rewrite stage has decoded {}, the form is shown and what it submits is
\* that record.
C11_EmptyObjectGivesEmptyRecord ==
    (pc = "end" /\ rewritten_data = Obj(EmptyDict))
    => /\ form.shown
       /\ final_context_of(form.w, cv_data) = Returned(EmptyRecord)

-----------------------------------------------------------------------------
(* "Generate Document" (app_gemini.py 231-272 and 378-440,                 *)
(* app_gemini_2languages.py 266-302 and 413-473): a session that holds a   *)
(* record and shows its form; the user edits widgets and submits the form. *)

MaxGenerates == 2   \* most Generate clicks in one session

\* str.replace(old, new) on a text whose units are single characters or words
\* without old
RECURSIVE replace(_, _, _)
replace(t, old, new) ==
    IF t = << >> THEN << >>
    ELSE (IF Head(t) = old THEN new ELSE <<Head(t)>>) \o replace(Tail(t), old, new)

\* xml.sax.saxutils.escape(data): & first, then > and <
escape(t) ==
    replace(replace(replace(t, "&", <<"&", "a", "m", "p", ";">>),
                    ">", <<"&", "g", "t", ";">>),
            "<", <<"&", "l", "t", ";">>)

RECURSIVE safe_escape_data_top_level(_)
\* as safe_escape_data, the items of a list left as they are
safe_escape_data_top_level(data) ==
    CASE data.k = "obj" ->
           Obj([key \in DOMAIN data.v |-> safe_escape_data_top_level(data.v[key])])
      [] data.k = "str" -> Str(escape(data.v))
      [] OTHER -> data

RECURSIVE safe_escape_data(_)
\* app_gemini_2languages.py 283-291
safe_escape_data(data) ==
    CASE data.k = "obj" -> Obj([key \in DOMAIN data.v |-> safe_escape_data(data.v[key])])
      [] data.k = "list" -> List([i \in 1..Len(data.v) |-> safe_escape_data(data.v[i])])
      [] data.k = "str" -> Str(escape(data.v))
      [] OTHER -> data

\* lines 238-241
template_name(language) ==
    IF language = "German" THEN "CVTemplate_Python_DE.docx" ELSE "CVTemplate_Python_EN.docx"

\* line 252: f"temp_{uploaded_image_data.name}"
temp_image_path(name) == <<"temp_", name>>

\* line 256: InlineImage(doc, temp_image_path, width=Mm(35))
InlineImage(path) == [k |-> "image", v |-> path]

\* line 257: context['profile_pic'] = image_to_insert
WithProfilePic(context, image) ==
    Obj([key \in DOMAIN context.v \cup {<<"profile_pic">>} |->
            IF key = <<"profile_pic">> THEN image ELSE context.v[key]])

\* lines 430-431
file_name(context, language) ==
    (IF language = "German" THEN <<"Optimierter_Lebenslauf_">> ELSE <<"Enhanced_CV_">>)
    \o PyStr(Get(context, "NAME", Str(<<"CV">>))) \o <<".docx">>

TemplateMissing(language) ==
    <<Shown("error", "Critical Error: The template file was not found.",
            <<template_name(language)>>),
      Shown("info", "Please make sure you have two templates", << >>)>>

GenerateFailed == Shown("error", "Error generating the Word document", << >>)

DocumentGenerated == Shown("success", "Document Generated!", << >>)

\* what the user may do to the shown form before submitting it
Edits == {"none", "name", "skills", "current", "cleared", "dated"}

\* the widgets w with the "To Date" of job i (from 1) set to the text to
WithToDate(w, i, to) == IF Len(w[3]) >= i THEN [w EXCEPT ![3][i].we_to = to] ELSE w

Edited(w, edit) ==
    CASE edit = "name" -> [w EXCEPT ![1].p_NAME = <<"Ann", " ", "Lee">>]
      [] edit = "skills" -> [w EXCEPT ![5] = <<"R", "&", "D", "\n", "<", "b", ">">>]
      [] edit = "current" -> WithToDate(WithToDate(w, 1, <<"present">>), 2, <<"PRESENT">>)
      [] edit = "cleared" -> WithToDate(WithToDate(w, 1, << >>), 2, << >>)
      [] edit = "dated" -> WithToDate(WithToDate(w, 1, <<"2021">>), 2, <<"2020">>)
      [] OTHER -> w

Languages == {"English", "German"}

\* line 329: the profile picture uploader of app_gemini.py
Pictures == {NoPicture, "me.png"}

\* records a successful Analyse action can have stored
GenerateRecords ==
    {FullRecord,
     Field("a", Str(<<"a">>)),
     Obj((<<"personal_info">> :> Field("NAME", Str(<<"Ann">>))) @@
         (<<"work_experience">> :>
             List(<<Obj((<<"title">> :> Str(<<"Dev">>)) @@
                        (<<"achievements">> :> List(<<Str(<<"a", "<", "b">>),
                                                      Str(<<"Q", "&", "A">>)>>)))>>)))}

GenerateInit ==
    /\ AccessGranted
    /\ cv_data \in GenerateRecords
    /\ variant \in Variants
    /\ form = [shown |-> TRUE, w |-> FormDefaults(cv_data).val]
    /\ norm_out = NormPending
    /\ norm_again = NormPending
    /\ language_selection = "English"
    /\ uploaded_pic = NoPicture
    /\ final_context = None
    /\ rendered = NoRender
    /\ download = NoDownload
    /\ disk = {}
    /\ n_renders = 0
    /\ n_generates = 0
    /\ pc = "idle"
    /\ uploaded_files = << >>
    /\ free_text_input = << >>
    /\ file_idx = 0
    /\ all_texts = << >>
    /\ consolidated_text = << >>
    /\ extracted_data = None
    /\ rewritten_data = None
    /\ response = NoResponse
    /\ ui = << >>
    /\ events = << >>
    /\ cv_at_click = None
    /\ n_actions = 1
    /\ dec_src = NoSource
    /\ raw_text_from_ai = << >>
    /\ dec_out = Pending
    /\ uploaded_file = NoFile
    /\ ext_out = ExtPending

\* the user edits the form, picks the language and the picture and clicks
\* "Generate Document": lines 378-423 build final_context from the widgets
ClickGenerate(edit, language, pic) ==
    /\ pc = "idle"
    /\ form.shown
    /\ n_generates < MaxGenerates
    /\ variant = "app_gemini_2languages.py" => pic = NoPicture
    /\ n_generates' = n_generates + 1
    /\ cv_at_click' = cv_data
    /\ language_selection' = language
    /\ uploaded_pic' = pic
    /\ \E w \in {Edited(form.w, edit)} :
          /\ form' = [form EXCEPT !.w = w]
          /\ \E c \in {final_context_of(w, cv_data)} :
                IF c.exc # ""
                THEN final_context' = None /\ pc' = "aborted"
                ELSE final_context' = c.val /\ pc' = "generate"
    /\ UNCHANGED <<cv_data, uploaded_files, free_text_input, file_idx, all_texts,
                   consolidated_text, extracted_data, rewritten_data, response, ui,
                   events, n_actions, gateVars, decVars, extVars, normVars, variant, rendered,
                   download, disk, n_renders>>

\* what writing the picture file does: lines 253-254 return, open raises
\* before the file is there, or f.write raises after open has created it
WriteOutcomes == {"ok", "open_raises", "write_raises"}

\* generate_word_document up to the render: lines 236-257 (2languages 270-280);
\* the template file is there or not, and app_gemini.py writes the uploaded
\* picture to a file of the working directory
OpenTemplate(template_exists, write) ==
    /\ pc = "generate"
    /\ IF ~template_exists
       THEN /\ ui' = ui \o TemplateMissing(language_selection)
            /\ pc' = "end"
            /\ UNCHANGED <<disk, final_context>>
       ELSE /\ UNCHANGED ui
            /\ IF variant = "app_gemini.py" /\ uploaded_pic # NoPicture
               THEN CASE write = "ok" ->
                           /\ disk' = disk \cup {temp_image_path(uploaded_pic)}
                           /\ final_context' =
                                WithProfilePic(final_context,
                                               InlineImage(temp_image_path(uploaded_pic)))
                           /\ pc' = "render"
                      [] write = "write_raises" ->
                           /\ disk' = disk \cup {temp_image_path(uploaded_pic)}
                           /\ pc' = "except"
                           /\ UNCHANGED final_context
                      [] OTHER ->
                           /\ pc' = "except"
                           /\ UNCHANGED <<disk, final_context>>
               ELSE /\ pc' = "render"
                    /\ UNCHANGED <<disk, final_context>>
    /\ UNCHANGED <<cv_data, uploaded_files, free_text_input, file_idx, all_texts,
                   consolidated_text, extracted_data, rewritten_data, response,
                   events, cv_at_click, n_actions, gateVars, decVars, extVars, normVars, variant,
                   form, language_selection, uploaded_pic, rendered, download,
                   n_renders, n_generates>>

\* as RenderDocument, the record taken out of the session state by the render
RenderDocument_consuming(ok) ==
    /\ pc = "render"
    /\ \E context \in {IF variant = "app_gemini.py" THEN final_context
                       ELSE safe_escape_data(final_context)} :
          rendered' = [done |-> TRUE, context |-> context,
                       autoescape |-> (variant = "app_gemini.py")]
    /\ disk' = disk \ {temp_image_path(uploaded_pic)}
    /\ IF ok
       THEN /\ n_renders' = n_renders + 1
            /\ ui' = Append(ui, DocumentGenerated)
            /\ download' = [shown |-> TRUE,
                            file_name |-> file_name(final_context, language_selection)]
       ELSE /\ ui' = Append(ui, GenerateFailed)
            /\ UNCHANGED <<n_renders, download>>
    /\ pc' = "end"
    /\ cv_data' = None
    /\ UNCHANGED <<uploaded_files, free_text_input, file_idx, all_texts,
                   consolidated_text, extracted_data, rewritten_data, response,
                   events, cv_at_click, n_actions, gateVars, decVars, extVars, normVars, variant,
                   form, language_selection, uploaded_pic, final_context, n_generates>>

\* as RenderDocument, the download offered whether or not the render raised
RenderDocument_always_offering(ok) ==
    /\ pc = "render"
    /\ \E context \in {IF variant = "app_gemini.py" THEN final_context
                       ELSE safe_escape_data(final_context)} :
          rendered' = [done |-> TRUE, context |-> context,
                       autoescape |-> (variant = "app_gemini.py")]
    /\ disk' = disk \ {temp_image_path(uploaded_pic)}
    /\ IF ok
       THEN /\ n_renders' = n_renders + 1
            /\ ui' = Append(ui, DocumentGenerated)
            /\ download' = [shown |-> TRUE,
                            file_name |-> file_name(final_context, language_selection)]
       ELSE /\ ui' = Append(ui, GenerateFailed)
            /\ download' = [shown |-> TRUE,
                            file_name |-> file_name(final_context, language_selection)]
            /\ UNCHANGED n_renders
    /\ pc' = "end"
    /\ UNCHANGED <<cv_data, uploaded_files, free_text_input, file_idx, all_texts,
                   consolidated_text, extracted_data, rewritten_data, response,
                   events, cv_at_click, n_actions, gateVars, decVars, extVars, normVars, variant,
                   form, language_selection, uploaded_pic, final_context, n_generates>>

\* the rest of generate_word_document and of the handler: lines 261-272 and 427-440
\* (2languages 293-302 and 460-473); doc.render is called, and it or doc.save
\* returns or raises
RenderDocument(ok) ==
    /\ pc = "render"
    /\ \E context \in {IF variant = "app_gemini.py" THEN final_context
                       ELSE safe_escape_data(final_context)} :
          rendered' = [done |-> TRUE, context |-> context,
                       autoescape |-> (variant = "app_gemini.py")]
    /\ disk' = disk \ {temp_image_path(uploaded_pic)}
    /\ IF ok
       THEN /\ n_renders' = n_renders + 1
            /\ ui' = Append(ui, DocumentGenerated)
            /\ download' = [shown |-> TRUE,
                            file_name |-> file_name(final_context, language_selection)]
       ELSE /\ ui' = Append(ui, GenerateFailed)
            /\ UNCHANGED <<n_renders, download>>
    /\ pc' = "end"
    /\ UNCHANGED <<cv_data, uploaded_files, free_text_input, file_idx, all_texts,
                   consolidated_text, extracted_data, rewritten_data, response,
                   events, cv_at_click, n_actions, gateVars, decVars, extVars, normVars, variant,
                   form, language_selection, uploaded_pic, final_context, n_generates>>

\* as AfterWriteFailure, the finally block left out
AfterWriteFailure_without_finally ==
    /\ pc = "except"
    /\ ui' = Append(ui, GenerateFailed)
    /\ pc' = "end"
    /\ UNCHANGED <<cv_data, uploaded_files, free_text_input, file_idx, all_texts,
                   consolidated_text, extracted_data, rewritten_data, response,
                   events, cv_at_click, n_actions, gateVars, decVars, extVars, normVars, docVars>>

\* lines 267-272 after the picture could not be written: the error is shown, the
\* finally block removes the file if it is there, and None is returned
AfterWriteFailure ==
    /\ pc = "except"
    /\ ui' = Append(ui, GenerateFailed)
    /\ disk' = disk \ {temp_image_path(uploaded_pic)}
    /\ pc' = "end"
    /\ UNCHANGED <<cv_data, uploaded_files, free_text_input, file_idx, all_texts,
                   consolidated_text, extracted_data, rewritten_data, response,
                   events, cv_at_click, n_actions, gateVars, decVars, extVars, normVars, variant,
                   form, language_selection, uploaded_pic, final_context, rendered,
                   download, n_renders, n_generates>>

GenerateNext ==
    \/ \E edit \in Edits, language \in Languages, pic \in Pictures :
          ClickGenerate(edit, language, pic)
    \/ \E template_exists \in BOOLEAN, write \in WriteOutcomes :
          OpenTemplate(template_exists, write)
    \/ \E ok \in BOOLEAN : RenderDocument(ok)
    \/ AfterWriteFailure
    \/ FinishRun

SpecGenerate == GenerateInit /\ [][GenerateNext]_vars

-----------------------------------------------------------------------------
(* Claims about "Generate Document", checked under SpecGenerate *)

RECURSIVE StringsAt(_, _)
\* the string values of v at any depth, each with the path that leads to it
StringsAt(v, path) ==
    CASE v.k = "str" -> {<<path, v.v>>}
      [] v.k = "list" -> UNION {StringsAt(v.v[i], Append(path, i)) : i \in 1..Len(v.v)}
      [] v.k = "obj" -> UNION {StringsAt(v.v[key], Append(path, key)) : key \in DOMAIN v.v}
      [] OTHER -> {}

\* t has no raw <, > or &: every & begins one of the three entities
NoRawMarkup(t) ==
    \A i \in 1..Len(t) :
        /\ t[i] \notin {"<", ">"}
        /\ t[i] = "&" =>
             \E e \in {<<"a", "m", "p", ";">>, <<"g", "t", ";">>, <<"l", "t", ";">>} :
                 /\ i + Len(e) <= Len(t)
                 /\ SubSeq(t, i + 1, i + Len(e)) = e

\* C17: whenever doc.render is called, either the template was opened with
\* auto-escaping, or every string value of the context it is given, at any depth of
\* lists and mappings, is the escaped form of the string at the same place of the
\* final context and holds no raw &, < or >.
C17_EscapedBeforeRender ==
    rendered.done =>
        \/ rendered.autoescape
        \/ /\ StringsAt(rendered.context, << >>)
                = {<<s[1], escape(s[2])>> : s \in StringsAt(final_context, << >>)}
           /\ \A s \in StringsAt(rendered.context, << >>) : NoRawMarkup(s[2])

C17_Witness ==
    /\ rendered.done
    /\ ~rendered.autoescape
    /\ variant = "app_gemini_2languages.py"
    /\ << <<<<"work_experience">>, 1, <<"achievements">>, 1>>, <<"a", "<", "b">> >>
         \in StringsAt(final_context, << >>)
    /\ << <<<<"work_experience">>, 1, <<"achievements">>, 1>>,
          <<"a", "&", "l", "t", ";", "b">> >> \in StringsAt(rendered.context, << >>)
    /\ << <<<<"skills">>, 2>>, <<"&", "l", "t", ";", "b", "&", "g", "t", ";">> >>
         \in StringsAt(rendered.context, << >>)

\* t with every space replaced by an underscore
Underscored(t) == [i \in 1..Len(t) |-> IF t[i] = " " THEN "_" ELSE t[i]]

\* C18: the file name offered for download is made of the candidate's name with
\* every space replaced by an underscore, so no space of the name is in it.
C18_FileNameWithoutSpaces ==
    download.shown =>
        \E prefix \in {<<"Enhanced_CV_">>, <<"Optimierter_Lebenslauf_">>} :
            download.file_name = prefix \o Underscored(form.w[1].p_NAME) \o <<".docx">>

\* C19 as stated: a stored record is rendered into a document exactly once and is
\* not kept after being rendered: no second Generate action renders it, and once a
\* run has rendered it the session holds no record.
C19_RenderedOnceThenDropped ==
    /\ n_renders <= 1
    /\ (n_renders >= 1 /\ pc = "idle") => cv_data = None

\* C19 (amended): the stored record is kept in the session after being rendered,
\* and each Generate action renders it at most once: there are never more rendered
\* documents than Generate actions, the record of the session is the one the last
\* Generate action started from, and an offered download comes from a render.
C19_KeptAndRenderedOncePerGenerate ==
    /\ n_renders <= n_generates
    /\ n_generates >= 1 => (cv_data = cv_at_click /\ Truthy(cv_data))
    /\ (pc = "end" /\ download.shown) => (rendered.done /\ n_renders >= 1)

C19_Witness ==
    /\ pc = "end"
    /\ n_generates = 2
    /\ n_renders = 2
    /\ download.shown
    /\ cv_data = FullRecord

\* C20: nothing is written to durable storage; at no point of a run is there a file
\* the program has created on disk.
C20_NothingOnDisk == disk = {}

-----------------------------------------------------------------------------
(* Further claims about the decoder, checked under SpecDecoder *)

\* lines 198-202: whether the text has a span between the first { and the last }
HasSpan(raw) ==
    LET clean_text == StripFences(strip(raw))
    IN  find(clean_text, "{") # -1 /\ SpanEnd(clean_text) # 0

\* line 202: clean_text[start:end]
IsolatedSpan(raw) ==
    LET clean_text == StripFences(strip(raw))
    IN  SubSeq(clean_text, find(clean_text, "{") + 1, SpanEnd(clean_text))

\* position i of t holds a comma followed by optional whitespace and a closer
TrailingCommaAt(t, i) ==
    /\ t[i] = ","
    /\ \E j \in (i + 1)..Len(t) :
          /\ t[j] \in Closers
          /\ \A k \in (i + 1)..(j - 1) : t[k] \in Whitespace

\* C22: one pass of the comma repair suffices: in the repaired span no comma is
\* followed by optional whitespace and a closing brace or bracket, and repairing
\* it a second time changes nothing.
C22_SinglePassSuffices ==
    (dec_out.done /\ HasSpan(raw_text_from_ai))
    => \E once \in {RepairCommas(IsolatedSpan(raw_text_from_ai))} :
          /\ \A i \in 1..Len(once) : ~TrailingCommaAt(once, i)
          /\ RepairCommas(once) = once

\* C27: the decoder leaves valid JSON untouched: for a text that is already a
\* strictly valid JSON object text, without fences or surrounding prose, the decoder
\* returns exactly the object that json.loads gives for the text, the content of
\* every string value included.
C27_ValidJsonUntouched ==
    (dec_out.done /\ dec_src.kind = "json" /\ dec_src.comma_at = 0
        /\ dec_src.fence = "none" /\ json_loads(raw_text_from_ai).ok)
    => /\ ~dec_out.escaped
       /\ dec_out.ret = json_loads(raw_text_from_ai).val

-----------------------------------------------------------------------------
(* Further claims about the form code, checked under SpecNormalizer *)

\* C24: in the final record the achievements of every work-experience entry are at
\* most 3, the first 3 of a longer decoded list.
C24_AchievementsCapped ==
    (Normalized /\ Decoded("work_experience").k = "list") =>
        \A i \in 1..Len(Final("work_experience").v) :
            Len(Final("work_experience").v[i].v[<<"achievements">>].v) <= MaxAchievements

\* a decoded languages entry with a language and a level, both strings
LanguageWithLevel(e) ==
    /\ e.k = "obj"
    /\ DOMAIN e.v = {<<"language">>, <<"level">>}
    /\ e.v[<<"language">>].k = "str" /\ e.v[<<"level">>].k = "str"

\* C30: languages round trip through the form: submitting the form without editing
\* yields exactly the first 6 decoded entries, in order, with the same language
\* and level.
C30_LanguagesRoundTrip ==
    (Normalized /\ Decoded("languages").k = "list"
        /\ \A i \in 1..Len(Decoded("languages").v) : LanguageWithLevel(Decoded("languages").v[i]))
    => Final("languages").v = Capped(Decoded("languages").v, MaxLines)

-----------------------------------------------------------------------------
(* Further claims about "Generate Document", checked under SpecGenerate *)

\* the spellings of the word in the texts of the model
PresentWords == {<<"present">>, <<"Present">>, <<"PRESENT">>}

\* the "to" of job i (from 1) in the final context
FinalTo(i) == final_context.v[<<"work_experience">>].v[i].v[<<"to">>]

\* the "To Date" submitted for job i (from 1)
SubmittedTo(i) == form.w[3][i].we_to

\* C29: in the final record the first work-experience entry has "to" equal to
\* 'Present' whenever its submitted value is empty or is 'present' in any case,
\* and keeps the submitted value otherwise; every later entry keeps its submitted
\* value, the empty string included.
C29_PresentRule ==
    (pc = "generate" /\ final_context # None) =>
        /\ Len(final_context.v[<<"work_experience">>].v) = Len(form.w[3])
        /\ \A i \in 1..Len(form.w[3]) :
              FinalTo(i) = IF i = 1 /\ (SubmittedTo(1) = << >> \/ SubmittedTo(1) \in PresentWords)
                           THEN Str(<<"Present">>)
                           ELSE Str(SubmittedTo(i))

C29_Witness ==
    /\ pc = "generate"
    /\ Len(form.w[3]) = 2
    /\ SubmittedTo(1) = <<"present">> /\ FinalTo(1) = Str(<<"Present">>)
    /\ SubmittedTo(2) = <<"PRESENT">> /\ FinalTo(2) = Str(<<"PRESENT">>)

\* the template file was found in this run
TemplateFound ==
    \A i \in 1..Len(ui) : \A j \in 1..2 : ui[i] # TemplateMissing(language_selection)[j]

\* C28: on every exit path of generate_word_document of app_gemini.py the file
\* temp_<picture name> does not exist after the function has returned, and the
\* file is created only when a profile picture was uploaded and the template
\* file exists.
C28_TempPictureRemoved ==
    /\ pc \in {"end", "idle"} => disk = {}
    /\ disk # {} =>
          /\ variant = "app_gemini.py"
          /\ uploaded_pic # NoPicture
          /\ disk = {temp_image_path(uploaded_pic)}
          /\ TemplateFound

\* the write of the picture failed and the function has returned
C28_Witness ==
    /\ pc = "end"
    /\ variant = "app_gemini.py"
    /\ uploaded_pic = "me.png"
    /\ ~rendered.done
    /\ TemplateFound
    /\ ui = <<GenerateFailed>>
    /\ disk = {}

-----------------------------------------------------------------------------
(* Further claims about the Analyse action, checked under Spec *)

\* a decoded value that is a non-empty JSON object
NonEmptyObject(x) == x.k = "obj" /\ DOMAIN x.v # {}

\* C26: the stored record is either None or a non-empty JSON object decoded from the
\* rewrite response of an action whose extraction response decoded to a non-empty
\* object as well; {} , a response without parts and a decode failure of either
\* stage leave cv_data as it was, and a decode never yields a list or a scalar.
C26_StoredRecordInvariant ==
    /\ cv_data = None \/ NonEmptyObject(cv_data)
    /\ extracted_data.k \in {"none", "obj"} /\ rewritten_data.k \in {"none", "obj"}
    /\ (pc \in AfterHandler /\ cv_data # cv_at_click) =>
          /\ NonEmptyObject(extracted_data)
          /\ GatewayCalls("extraction") = 1 /\ GatewayCalls("rewrite") = 1
          /\ response.kind = "text"
          /\ cv_data = rewritten_data
          /\ cv_data = robust_json_parser(response.text).ret
    /\ (pc \in AfterHandler /\ ~NonEmptyObject(rewritten_data)) => cv_data = cv_at_click
    /\ pc \notin AfterHandler \cup {"idle"} => cv_data = cv_at_click

\* the second Analyse action of a session has replaced the record of the first
C26_Witness ==
    /\ pc = "form"
    /\ n_actions = 2
    /\ cv_at_click = Field("a", Str(<<"a">>))
    /\ cv_data = Field("n", List(<<Num(1)>>))
    /\ NonEmptyObject(extracted_data)
    /\ GatewayCalls("rewrite") = 1

-----------------------------------------------------------------------------
(* A whole session of either variant: Analyse and Generate actions in any  *)
(* order, from the start of the session.                                   *)

\* the uploads of one action of the session: at most one file
SessionUploads == {fs \in Uploads : Len(fs) <= 1}

SessionInit ==
    /\ AppIdle
    /\ variant \in Variants
    /\ dec_src = NoSource
    /\ raw_text_from_ai = << >>
    /\ dec_out = Pending
    /\ uploaded_file = NoFile
    /\ ext_out = ExtPending

SessionNext ==
    \/ \E files \in SessionUploads, free \in FreeTexts : ClickAnalyse(files, free)
    \/ ExtractNextFile
    \/ CheckInput
    \/ \E r \in GatewayOutcomes : ExtractRawData(r)
    \/ \E r \in GatewayOutcomes : RewriteExtractedData(r)
    \/ RenderForm
    \/ \E edit \in Edits, language \in Languages, pic \in Pictures :
          ClickGenerate(edit, language, pic)
    \/ \E template_exists \in BOOLEAN, write \in WriteOutcomes :
          OpenTemplate(template_exists, write)
    \/ \E ok \in BOOLEAN : RenderDocument(ok)
    \/ AfterWriteFailure
    \/ FinishRun

SpecSession == SessionInit /\ [][SessionNext]_vars

-----------------------------------------------------------------------------
(* Claims about a whole session, checked under SpecSession *)

\* the extraction of a file of this action raised
FileFailed == \E i \in 1..Len(uploaded_files) : Raises(uploaded_files[i])

\* generate_word_document of this run found no template, or caught an exception
GenerateStageFailed == ShownInUi(GenerateFailed) \/ ~TemplateFound

\* the failure has its consequences: an error is shown, the stored record is the
\* one from before the action, no document is offered
FailureContained ==
    /\ ErrorShown
    /\ cv_data = cv_at_click
    /\ ~download.shown

\* C21 as stated: when any stage fails (file extraction, a gateway call, JSON
\* decoding, a missing template or a render error) the action ends with an error
\* shown, cv_data exactly as before the action and no document offered, and the run
\* ends so that Analyse can be used again.
C21_AnyFailureKeepsRecord ==
    /\ pc # "aborted"
    /\ (pc \in AfterHandler /\ (FileFailed \/ LastStageFailed)) => FailureContained
    /\ (pc = "end" /\ GenerateStageFailed) => FailureContained

\* C21 (amended): as above for a failure of a gateway call, of the decoding, of the
\* template lookup and of the render; a file whose extraction fails is reported
\* with an error and skipped, and the action goes on with the other inputs.
C21_FailureKeepsRecordFileSkipped ==
    /\ pc # "aborted"
    /\ (pc \in AfterHandler /\ LastStageFailed) => FailureContained
    /\ (pc = "end" /\ GenerateStageFailed) => FailureContained
    /\ (pc \in AfterHandler /\ FileFailed) =>
          /\ \A i \in 1..Len(uploaded_files) :
                FileErrors(uploaded_files[i].name) = IF Raises(uploaded_files[i]) THEN 1 ELSE 0
          /\ all_texts = PiecesWithoutFailing

\* a record is stored, a later render fails: the record is kept, nothing is offered
C21_Witness ==
    /\ pc = "end"
    /\ n_actions >= 1
    /\ rendered.done
    /\ ui = <<GenerateFailed>>
    /\ ~download.shown
    /\ cv_data = Field("a", Str(<<"a">>))
    /\ cv_data = cv_at_click

\* the positions of an Analyse run and of a Generate run before its end
AnalysePositions == {"files", "check_input", "extract_call", "rewrite_call", "form"}

GeneratePositions == {"generate", "render", "except"}

-----------------------------------------------------------------------------
(* check_password and the main script (app_gemini.py 445-471,              *)
(* app_gemini_2languages.py 478-504): the script runs of a session that    *)
(* starts without access.                                                  *)

MaxRuns == 3        \* most script runs the user starts in one session

\* st.secrets of a deployment: no secrets file (any access raises), no
\* APP_PASSWORD key, an empty one, a number, the secret
NoSecretsFile == None

Secrets ==
    {NoSecretsFile, Obj(EmptyDict), Field("APP_PASSWORD", EmptyStr),
     Field("APP_PASSWORD", Num(1)), Field("APP_PASSWORD", Str(Secret))}

\* the texts a user types into the password box
Passwords == {<< >>, Secret, <<"S3CRET">>, <<"1">>}

\* line 452: st.secrets.get("APP_PASSWORD")
SecretsGet(key) ==
    IF secrets = NoSecretsFile THEN Raised("FileNotFoundError", "secrets")
    ELSE Returned(Get(secrets, key, None))

\* as Configured, the test left out
Configured_always(correct_password) == TRUE

\* line 453: if not correct_password
Configured(correct_password) == Truthy(correct_password)

NotConfigured == Shown("error", "Application password is not configured in st.secrets.", << >>)

PasswordIncorrect == Shown("error", "Password incorrect. Please try again.", << >>)

PasswordRequired == Shown("info", "A password is required to use this application.", << >>)

PasswordCheckFailed ==
    Shown("error", "An unexpected error occurred in the password check function", << >>)

PasswordInit ==
    /\ secrets \in Secrets
    /\ password_correct = FALSE
    /\ gate = GateIdle
    /\ variant \in Variants
    /\ cv_data = None
    /\ norm_out = NormPending
    /\ norm_again = NormPending
    /\ form = NoForm
    /\ language_selection = "English"
    /\ uploaded_pic = NoPicture
    /\ final_context = None
    /\ rendered = NoRender
    /\ download = NoDownload
    /\ disk = {}
    /\ n_renders = 0
    /\ n_generates = 0
    /\ pc = "idle"
    /\ uploaded_files = << >>
    /\ free_text_input = << >>
    /\ file_idx = 0
    /\ all_texts = << >>
    /\ consolidated_text = << >>
    /\ extracted_data = None
    /\ rewritten_data = None
    /\ response = NoResponse
    /\ ui = << >>
    /\ events = << >>
    /\ cv_at_click = None
    /\ n_actions = 0
    /\ dec_src = NoSource
    /\ raw_text_from_ai = << >>
    /\ dec_out = Pending
    /\ uploaded_file = NoFile
    /\ ext_out = ExtPending

\* the page is opened, or the user leaves the password box with the text
\* entered in it, or (the box gone) uses a widget of the app: a script run starts
StartRun(entered) ==
    /\ gate.pc = "idle"
    /\ gate.run < MaxRuns
    /\ password_correct => entered = gate.input
    /\ gate' = [gate EXCEPT !.pc = "check", !.input = entered, !.run = @ + 1,
                            !.shown = << >>]
    /\ UNCHANGED <<secrets, password_correct, decVars, extVars, appVars, normVars, docVars>>

\* lines 445-468: check_password() of the run; st.rerun() ends the run and starts
\* the next one (its exception is not an Exception, line 466 does not catch it)
CheckPassword ==
    /\ gate.pc = "check"
    /\ IF password_correct
       THEN /\ gate' = [gate EXCEPT !.pc = "app"]
            /\ UNCHANGED password_correct
       ELSE \E c \in {SecretsGet("APP_PASSWORD")} :
               IF c.exc # ""
               THEN /\ gate' = [gate EXCEPT !.pc = "idle", !.shown = <<PasswordCheckFailed>>]
                    /\ UNCHANGED password_correct
               ELSE IF ~Configured(c.val)
               THEN /\ gate' = [gate EXCEPT !.pc = "idle", !.shown = <<NotConfigured>>]
                    /\ UNCHANGED password_correct
               ELSE IF Str(gate.input) = c.val
               THEN /\ password_correct' = TRUE
                    /\ gate' = [gate EXCEPT !.pc = "check", !.run = @ + 1,
                                            !.granted_run = gate.run,
                                            !.granted_with = gate.input]
               ELSE /\ gate' = [gate EXCEPT !.pc = "idle",
                                            !.shown = IF gate.input # << >>
                                                      THEN <<PasswordIncorrect>>
                                                      ELSE <<PasswordRequired>>]
                    /\ UNCHANGED password_correct
    /\ UNCHANGED <<secrets, decVars, extVars, appVars, normVars, docVars>>

\* lines 470-471: check_password() returned True and run_the_app() runs
RunTheApp ==
    /\ gate.pc = "app"
    /\ gate' = [gate EXCEPT !.pc = "idle", !.app_runs = @ + 1]
    /\ UNCHANGED <<secrets, password_correct, decVars, extVars, appVars, normVars, docVars>>

PasswordNext ==
    \/ \E entered \in Passwords : StartRun(entered)
    \/ CheckPassword
    \/ RunTheApp

SpecPassword == PasswordInit /\ [][PasswordNext]_vars

\* the configured secret, when it is a non-empty string
SecretConfigured ==
    /\ secrets # NoSecretsFile
    /\ <<"APP_PASSWORD">> \in DOMAIN secrets.v
    /\ secrets.v[<<"APP_PASSWORD">>].k = "str"
    /\ secrets.v[<<"APP_PASSWORD">>].v # << >>

\* C25: run_the_app executes only in a run that began with password_correct true,
\* the flag having been set by an earlier run; the flag is set only in a run where
\* the entered password equals the configured APP_PASSWORD and that secret is not
\* empty; with the secret missing or empty nothing grants access, the empty
\* password included; and once set the flag is never cleared.
C25_PasswordGate ==
    /\ (gate.pc = "app" \/ gate.app_runs > 0) =>
          /\ password_correct
          /\ 0 < gate.granted_run /\ gate.granted_run < gate.run
    /\ password_correct =>
          /\ SecretConfigured
          /\ gate.granted_with = secrets.v[<<"APP_PASSWORD">>].v
          /\ gate.granted_run > 0
    /\ ~SecretConfigured => (~password_correct /\ gate.pc # "app" /\ gate.app_runs = 0)
    /\ gate.granted_run > 0 => password_correct

\* a wrong password, then the right one, then the app runs
C25_Witness ==
    /\ gate.pc = "app"
    /\ password_correct
    /\ gate.granted_run = 2
    /\ gate.run = 3
    /\ gate.granted_with = Secret

====
